---------------------------- MODULE Spec2Model ----------------------------
(***************************************************************************)
(* State-machine model of the webgpu-fun visualisation demos:              *)
(*   Chrono-Scrolls (PixiJS)        src/unnamed/part_000                    *)
(*   Data Geysers (Deck.gl)         src/unnamed/part_001                    *)
(*   Neural Constellations (Babylon) src/src/BabylonApp.tsx, part_003       *)
(*   Ephemeral Echoes (Three.js)    src/src/ThreeJSApp.tsx                  *)
(*                                                                         *)
(* The React components of the demos share no state.  The variable `focus` *)
(* names the component whose state machine a behaviour explores, so that   *)
(* the state space of the whole model is the sum, not the product, of the  *)
(* components' state spaces.                                               *)
(*                                                                         *)
(* Numbers: coordinates of the records are integers, and a distance test   *)
(* sqrt(d2) < T is modelled by d2 < T*T, which is the same test for        *)
(* integer coordinates.  Zoom and viewport positions are exact rationals   *)
(* <<numerator, denominator>>; floating-point rounding is not modelled.    *)
(***************************************************************************)
EXTENDS Integers, Sequences, FiniteSets, TLC

VARIABLES
  focus,        \* component explored: "scene" | "pan" | "app" | "deck" | ...
  demo,         \* "pixi" | "three" | "babylon" | "deck"
  records,      \* the demo's record list (MOCK_EMBEDDINGS_*)
  selected,     \* selectedRune / selectedGlyph / selectedStarId / selectedItemId
  hovered,      \* hoveredRune / hoveredGlyph / hoverInfo.object.id
  lines,        \* threads / wisps / tethers / PathLayer data, as last rendered
  ev,           \* the last event delivered: [op |-> ..., arg |-> ...]
  \* ChronoScrollsSceneContent, pan and zoom
  viewport,     \* [x, y]: the state set by setViewportPosition (viewX, viewY)
  zoom,         \* the state set by setZoom
  eff,          \* the closure of the pan/zoom effect's latest run
  cursor,       \* stage.cursor
  ptr,          \* the pointer: [down, x, y], its button and last position
  nev,          \* number of pointer and wheel events delivered
  \* BabylonApp (src/src/BabylonApp.tsx) and ThreeJSApp
  phase,        \* the component: "rendered", "mounted" or "unmounted"
  engine,       \* the state `engine` / `renderer`: 0 for null, or an object
  engineType,   \* the state `engineType` / `rendererType`
  error,        \* the state `error`: Null or the message's kind
  isMounted,    \* isMountedRef.current
  canvasRef,    \* babylonCanvasRef.current is a canvas
  rendered,     \* <<engine, engineType, error>> of the latest render
  made,         \* the engines / renderers constructed: [kind, disposed]
  runs,         \* the effect's runs: [engine, currentEngine, pc]
  \* DeckGLApp, animation effect
  time,         \* the state `time`, in thousandths
  animationFrameId, \* the effect's variable animationFrameId
  rafPending,   \* the outstanding requestAnimationFrame requests
  rafNext,      \* the next request id
  \* PixiApp, asset initialisation
  assetsPromise, \* the module's pixiAssetsInitializedPromise: 0 for null, or a promise
  promises,     \* the promises created: [state, of], `of` the promise it adopts or 0
  initCalls,    \* number of calls of PIXI.Assets.init
  callbacks,    \* the then-callbacks not yet run: [p, inst, effect]
  pixi,         \* PixiApp's latest instance: [inst, isPixiAssetsReady, rendererType, isMounted]
  \* WeavingThread
  progress,     \* WeavingThread's state `progress`, in 1/10000
  progressSeen, \* the `progress` of the render whose tick callback is registered
  \* RuneGlyph
  currentScale, \* RuneGlyph's currentScaleRef.current, a rational
  runeProps,    \* the props of the glyph's render: [isSelected, isHovered]
  nticks,       \* number of ticks delivered to the glyph
  \* PixiApp, earlier variant
  earlyPromise, \* state of pixiAssetsInitializedPromise of the earlier variant: "null", "pending", "resolved", "rejected"
  earlyAttempts, \* the calls of PIXI.Assets.init made so far: [prefs, state]
  earlyCallbacks, \* then-callbacks waiting on the promise, by instance
  earlyApp,     \* the PixiApp instance of the earlier variant: inst, isPixiAssetsReady, isMounted
  \* StarCore of part_003
  selectedStarId, \* NeuralConstellationsScene's selectedStarId in part_003
  observers,    \* scene.onPointerObservable: the observers in order, [star, render]
  registered,   \* per star, the render whose effect added its current observer, or 0
  starRenders,  \* number of renders of NeuralConstellationsScene so far
  \* pointer events of the glyphs
  over          \* the glyphs that received a pointerover and no pointerout since

sceneVars == <<records, selected, hovered, lines>>

panVars == <<viewport, zoom, eff, cursor, ptr, nev>>

appVars == <<engine, engineType, error, isMounted, canvasRef, rendered, made, runs>>

deckVars == <<time, animationFrameId, rafPending, rafNext>>

assetsVars == <<assetsPromise, promises, initCalls, callbacks, pixi>>

threadVars == <<progress, progressSeen>>

runeVars == <<currentScale, runeProps, nticks>>

earlyVars == <<earlyPromise, earlyAttempts, earlyCallbacks, earlyApp>>

starVars == <<selectedStarId, observers, registered, starRenders>>

hoverVars == <<over>>

vars == <<focus, demo, phase, ev, sceneVars, panVars, appVars, deckVars, assetsVars, threadVars, runeVars, earlyVars, starVars, hoverVars>>

\* What the actions of one component leave unchanged.
notScene == <<focus, demo, phase, panVars, appVars, deckVars, assetsVars, threadVars, runeVars, earlyVars, starVars, hoverVars>>

notPan == <<focus, demo, phase, sceneVars, appVars, deckVars, assetsVars, threadVars, runeVars, earlyVars, starVars, hoverVars>>

notApp == <<focus, demo, sceneVars, panVars, deckVars, assetsVars, threadVars, runeVars, earlyVars, starVars, hoverVars>>

notDeck == <<focus, demo, sceneVars, panVars, appVars, assetsVars, threadVars, runeVars, earlyVars, starVars, hoverVars>>

\* JavaScript null / undefined.
Null == "null"

Demos == {"pixi", "three", "babylon", "deck"}

Event(op, arg) == [op |-> op, arg |-> arg]

-----------------------------------------------------------------------------
(* The record lists.  Only the fields the handlers read are kept: id,       *)
(* position and cluster.                                                    *)

MOCK_EMBEDDINGS_PIXI ==
  << [id |-> "p_emb_0_1", position |-> <<200, 300>>, cluster |-> 0],
     [id |-> "p_emb_0_2", position |-> <<350, 250>>, cluster |-> 0],
     [id |-> "p_emb_1_1", position |-> <<700, 500>>, cluster |-> 1],
     [id |-> "p_emb_1_2", position |-> <<850, 450>>, cluster |-> 1],
     [id |-> "p_emb_0_3", position |-> <<280, 450>>, cluster |-> 0],
     [id |-> "p_emb_1_3", position |-> <<780, 600>>, cluster |-> 1] >>

MOCK_EMBEDDINGS_THREE ==
  << [id |-> "emb_0_1_t", position |-> <<-12, 3, 7>>, cluster |-> 0],
     [id |-> "emb_0_2_t", position |-> <<-10, 5, 9>>, cluster |-> 0],
     [id |-> "emb_0_3_t", position |-> <<-13, 2, 10>>, cluster |-> 0],
     [id |-> "emb_1_1_t", position |-> <<10, -3, -8>>, cluster |-> 1],
     [id |-> "emb_1_2_t", position |-> <<12, -5, -6>>, cluster |-> 1],
     [id |-> "emb_1_3_t", position |-> <<9, -2, -10>>, cluster |-> 1],
     [id |-> "emb_2_1_t", position |-> <<-3, -8, -4>>, cluster |-> 2],
     [id |-> "emb_2_2_t", position |-> <<-5, -10, -2>>, cluster |-> 2],
     [id |-> "emb_3_1_t", position |-> <<4, 8, 1>>, cluster |-> 3],
     [id |-> "emb_3_2_t", position |-> <<2, 10, 3>>, cluster |-> 3] >>

MOCK_EMBEDDINGS_BABYLON ==
  << [id |-> "b_emb_0_1", position |-> <<-15, 5, 8>>, cluster |-> 0],
     [id |-> "b_emb_0_2", position |-> <<-12, 7, 10>>, cluster |-> 0],
     [id |-> "b_emb_1_1", position |-> <<10, -5, -10>>, cluster |-> 1],
     [id |-> "b_emb_1_2", position |-> <<12, -7, -8>>, cluster |-> 1],
     [id |-> "b_emb_0_3", position |-> <<-18, 3, 12>>, cluster |-> 0],
     [id |-> "b_emb_1_3", position |-> <<8, -9, -12>>, cluster |-> 1],
     [id |-> "b_emb_2_1", position |-> <<0, 10, -5>>, cluster |-> 1] >>

MOCK_EMBEDDINGS_DECK ==
  << [id |-> "d_emb_0_1", position |-> <<-60, 20, 10>>, cluster |-> 0],
     [id |-> "d_emb_0_2", position |-> <<-50, 25, 15>>, cluster |-> 0],
     [id |-> "d_emb_1_1", position |-> <<40, -30, -5>>, cluster |-> 1],
     [id |-> "d_emb_1_2", position |-> <<50, -35, 3>>, cluster |-> 1],
     [id |-> "d_emb_0_3", position |-> <<-70, 15, 5>>, cluster |-> 0],
     [id |-> "d_emb_1_3", position |-> <<30, -25, -10>>, cluster |-> 1] >>

MockOf(d) ==
  CASE d = "pixi"    -> MOCK_EMBEDDINGS_PIXI
    [] d = "three"   -> MOCK_EMBEDDINGS_THREE
    [] d = "babylon" -> MOCK_EMBEDDINGS_BABYLON
    [] d = "deck"    -> MOCK_EMBEDDINGS_DECK

IdsOf(recs) == {recs[k].id : k \in 1..Len(recs)}

\* Array.prototype.find(e => e.id === id), as a sequence: <<the first match>>,
\* or <<>> for undefined.
Find(recs, id) ==
  LET found == SelectSeq(recs, LAMBDA e : e.id = id)
  IN  IF found = <<>> THEN <<>> ELSE <<found[1]>>

-----------------------------------------------------------------------------
(* Distances.  Each returns the square of the distance the code computes.   *)

\* Math.hypot(a.x - b.x, a.y - b.y), squared.
HypotSq(a, b) == (a[1] - b[1]) * (a[1] - b[1]) + (a[2] - b[2]) * (a[2] - b[2])

\* Vector3.distanceTo / Vector3.Distance / Math.sqrt(pow + pow + pow), squared.
DistanceSq(a, b) ==
  (a[1] - b[1]) * (a[1] - b[1]) + (a[2] - b[2]) * (a[2] - b[2])
    + (a[3] - b[3]) * (a[3] - b[3])

THREAD_DISTANCE_PIXI == 400
WISP_DISTANCE_THREE == 12
TETHER_DISTANCE_BABYLON == 15
PATH_DISTANCE_DECK == 45


-----------------------------------------------------------------------------
(* Connecting lines.  A line is [key, from, to]: the React key (the two     *)
(* record ids) and the two end points.                                      *)

Line(e1, e2) == [key |-> <<e1.id, e2.id>>, from |-> e1.position, to |-> e2.position]

\* part_000:261-262, the test inside MOCK_EMBEDDINGS_PIXI.forEach.
threadConnected_LE(activeEmb, otherEmb) ==
  /\ otherEmb.id # activeEmb.id
  /\ otherEmb.cluster = activeEmb.cluster
  /\ HypotSq(activeEmb.position, otherEmb.position)
       <= THREAD_DISTANCE_PIXI * THREAD_DISTANCE_PIXI

threadConnected(activeEmb, otherEmb) ==
  /\ otherEmb.id # activeEmb.id
  /\ otherEmb.cluster = activeEmb.cluster
  /\ HypotSq(activeEmb.position, otherEmb.position)
       < THREAD_DISTANCE_PIXI * THREAD_DISTANCE_PIXI

\* ChronoScrollsSceneContent.threads (useMemo on [hoveredRune, selectedRune]).
threads(recs, selectedRune, hoveredRune) ==
  LET activeRuneId == IF selectedRune # Null THEN selectedRune ELSE hoveredRune
  IN  IF activeRuneId = Null THEN <<>>
      ELSE LET found == Find(recs, activeRuneId)
           IN  IF found = <<>> THEN <<>>
               ELSE LET activeEmb == found[1]
                        others == SelectSeq(recs,
                                    LAMBDA otherEmb : threadConnected(activeEmb, otherEmb))
                    IN  [k \in 1..Len(others) |-> Line(activeEmb, others[k])]

\* ThreeJSApp.tsx:135-136, the test inside MOCK_EMBEDDINGS_THREE.forEach.
wispConnected(activeEmb, otherEmb) ==
  /\ otherEmb.id # activeEmb.id
  /\ otherEmb.cluster = activeEmb.cluster
  /\ DistanceSq(activeEmb.position, otherEmb.position)
       < WISP_DISTANCE_THREE * WISP_DISTANCE_THREE

\* wisps with the hovered glyph taken before the selected one.
wisps_HoverFirst(recs, selectedGlyph, hoveredGlyph) ==
  LET activeGlyphId == IF hoveredGlyph # Null THEN hoveredGlyph ELSE selectedGlyph
  IN  IF activeGlyphId = Null THEN <<>>
      ELSE LET found == Find(recs, activeGlyphId)
           IN  IF found = <<>> THEN <<>>
               ELSE LET activeEmb == found[1]
                        others == SelectSeq(recs,
                                    LAMBDA otherEmb : wispConnected(activeEmb, otherEmb))
                    IN  [k \in 1..Len(others) |-> Line(activeEmb, others[k])]

\* EphemeralEchoesScene.wisps (useMemo on [hoveredGlyph, selectedGlyph]).
wisps(recs, selectedGlyph, hoveredGlyph) ==
  LET activeGlyphId == IF selectedGlyph # Null THEN selectedGlyph ELSE hoveredGlyph
  IN  IF activeGlyphId = Null THEN <<>>
      ELSE LET found == Find(recs, activeGlyphId)
           IN  IF found = <<>> THEN <<>>
               ELSE LET activeEmb == found[1]
                        others == SelectSeq(recs,
                                    LAMBDA otherEmb : wispConnected(activeEmb, otherEmb))
                    IN  [k \in 1..Len(others) |-> Line(activeEmb, others[k])]

\* BabylonApp.tsx:161, the test inside the pair loop.
tetherConnected_LE(emb1, emb2) ==
  /\ emb1.cluster = emb2.cluster
  /\ DistanceSq(emb1.position, emb2.position)
       <= TETHER_DISTANCE_BABYLON * TETHER_DISTANCE_BABYLON

tetherConnected(emb1, emb2) ==
  /\ emb1.cluster = emb2.cluster
  /\ DistanceSq(emb1.position, emb2.position)
       < TETHER_DISTANCE_BABYLON * TETHER_DISTANCE_BABYLON

\* The loops of NeuralConstellationsScene.tethers:
\*   forEach((emb1, i) => { for (let j = i + 1; j < length; j++) ... })
\* with 1-based indices.
RECURSIVE tethersLoop(_, _, _, _)
tethersLoop(recs, i, j, connections) ==
  IF i > Len(recs) THEN connections
  ELSE IF j > Len(recs) THEN tethersLoop(recs, i + 1, i + 2, connections)
  ELSE tethersLoop(recs, i, j + 1,
         IF tetherConnected(recs[i], recs[j])
         THEN Append(connections, Line(recs[i], recs[j]))
         ELSE connections)

\* NeuralConstellationsScene.tethers (useMemo on []).
tethers(recs) == tethersLoop(recs, 1, 2, <<>>)

\* part_001:130, the test inside the pair loop.
pathConnected(emb1, emb2) ==
  /\ emb1.cluster = emb2.cluster
  /\ DistanceSq(emb1.position, emb2.position)
       < PATH_DISTANCE_DECK * PATH_DISTANCE_DECK

OPACITY_CONNECTED == 160
OPACITY_DIMMED == 60

\* part_001:129 and 134: the opacity of a path.
pathOpacity(recs, emb1, emb2, selectedItemId) ==
  LET activeEmb == Find(recs, selectedItemId)
      isConnectedToSelected ==
        activeEmb # <<>> /\ (emb1.id = activeEmb[1].id \/ emb2.id = activeEmb[1].id)
  IN  IF isConnectedToSelected \/ selectedItemId = Null
      THEN OPACITY_CONNECTED ELSE OPACITY_DIMMED

\* The loops of the PathLayer data of DeckGLApp.layers, with 1-based indices.
RECURSIVE pathsLoop(_, _, _, _, _)
pathsLoop(recs, selectedItemId, i, j, paths) ==
  IF i > Len(recs) THEN paths
  ELSE IF j > Len(recs) THEN pathsLoop(recs, selectedItemId, i + 1, i + 2, paths)
  ELSE pathsLoop(recs, selectedItemId, i, j + 1,
         IF pathConnected(recs[i], recs[j])
         THEN Append(paths,
                [key |-> <<recs[i].id, recs[j].id>>,
                 from |-> recs[i].position, to |-> recs[j].position,
                 opacity |-> pathOpacity(recs, recs[i], recs[j], selectedItemId)])
         ELSE paths)

\* DeckGLApp.layers, PathLayer data (useMemo on [time, selectedItemId]).
energyStreams(recs, selectedItemId) == pathsLoop(recs, selectedItemId, 1, 2, <<>>)

\* What a render of the scene component draws as connecting lines.  The
\* Babylon tethers are memoised with no dependencies: they keep the value
\* of the first render.
RenderLines(d, recs, sel, hov, old) ==
  CASE d = "pixi"    -> threads(recs, sel, hov)
    [] d = "three"   -> wisps(recs, sel, hov)
    [] d = "babylon" -> old
    [] d = "deck"    -> energyStreams(recs, sel)

FirstRenderLines(d, recs) ==
  CASE d = "pixi"    -> threads(recs, Null, Null)
    [] d = "three"   -> wisps(recs, Null, Null)
    [] d = "babylon" -> tethers(recs)
    [] d = "deck"    -> energyStreams(recs, Null)


-----------------------------------------------------------------------------
(* Selection and hover of the scene components.                             *)

\* ChronoScrollsSceneContent.handleRuneClick: prev => (prev === id ? null : id).
handleRuneClick_Set(prev, id) == id

handleRuneClick(prev, id) == IF prev = id THEN Null ELSE id

\* EphemeralEchoesScene, onClick of EmbeddingGlyph: prev => prev === id ? null : id.
onClickGlyph(prev, id) == IF prev = id THEN Null ELSE id

\* NeuralConstellationsScene.handleStarClick: prevId => prevId === id ? null : id.
handleStarClick(prevId, id) == IF prevId = id THEN Null ELSE id

\* DeckGLApp, ScatterplotLayer onClick:
\*   prev => prev === info.object?.id ? null : info.object?.id
\* The layer's onClick is called with the picked object of the layer.
onClickScatter(prev, objectId) == IF prev = objectId THEN Null ELSE objectId

HoverDemos == {"pixi", "three"}

\* A click that also removes the first record of the list.
Click_DropsRecord(id) ==
  /\ focus = "scene"
  /\ id \in IdsOf(records)
  /\ selected' = IF selected = id THEN Null ELSE id
  /\ records' = Tail(records)
  /\ lines' = lines
  /\ ev' = Event("click", id)
  /\ UNCHANGED <<hovered, notScene>>

\* A click (pointertap / onClick / onPointerClick / layer onClick) on item id.
Click(id) ==
  /\ focus = "scene"
  /\ id \in IdsOf(records)
  /\ selected' = CASE demo = "pixi"    -> handleRuneClick(selected, id)
                   [] demo = "three"   -> onClickGlyph(selected, id)
                   [] demo = "babylon" -> handleStarClick(selected, id)
                   [] demo = "deck"    -> onClickScatter(selected, id)
  /\ lines' = RenderLines(demo, records, selected', hovered, lines)
  /\ ev' = Event("click", id)
  /\ UNCHANGED <<records, hovered, notScene>>

\* onPointerOver of a glyph: setHoveredRune(emb.id) / setHoveredGlyph(id).
PointerOver(id) ==
  /\ focus = "scene"
  /\ demo \in HoverDemos
  /\ id \in IdsOf(records)
  /\ hovered' = id
  /\ lines' = RenderLines(demo, records, selected, hovered', lines)
  /\ ev' = Event("pointerover", id)
  /\ UNCHANGED <<records, selected, notScene>>

\* onPointerOut of a glyph: setHoveredRune(null) / setHoveredGlyph(null).
PointerOut(id) ==
  /\ focus = "scene"
  /\ demo \in HoverDemos
  /\ id \in IdsOf(records)
  /\ hovered' = Null
  /\ lines' = RenderLines(demo, records, selected, hovered', lines)
  /\ ev' = Event("pointerout", id)
  /\ UNCHANGED <<records, selected, notScene>>

\* DeckGLApp, ScatterplotLayer onHover: setHoverInfo(info); info.object is
\* the record under the pointer or undefined.
ScatterHover(objectId) ==
  /\ focus = "scene"
  /\ demo = "deck"
  /\ objectId \in IdsOf(records) \cup {Null}
  /\ hovered' = objectId
  /\ lines' = RenderLines(demo, records, selected, hovered', lines)
  /\ ev' = Event("hover", objectId)
  /\ UNCHANGED <<records, selected, notScene>>

\* The scene component after its first render.
SceneInit(recs) ==
  /\ records = recs
  /\ selected = Null
  /\ hovered = Null
  /\ lines = FirstRenderLines(demo, recs)

NextScene ==
  \/ \E id \in IdsOf(records) : Click(id)
  \/ \E id \in IdsOf(records) : PointerOver(id)
  \/ \E id \in IdsOf(records) : PointerOut(id)
  \/ \E o \in IdsOf(records) \cup {Null} : ScatterHover(o)

-----------------------------------------------------------------------------
(* The props the scenes pass to their glyph components, and the palette     *)
(* entry a glyph reads with them.                                           *)

CLUSTER_COLORS_PIXI_LENGTH == 2
CLUSTER_COLORS_THREE_LENGTH == 4
CLUSTER_COLORS_BABYLON_LENGTH == 2

PaletteLength(d) ==
  CASE d = "pixi"    -> CLUSTER_COLORS_PIXI_LENGTH
    [] d = "three"   -> CLUSTER_COLORS_THREE_LENGTH
    [] d = "babylon" -> CLUSTER_COLORS_BABYLON_LENGTH

\* The props of the glyph of record emb, as a record of the props that are
\* passed.  ChronoScrollsSceneContent names each prop, clusterId={emb.cluster}
\* among them; EphemeralEchoesScene and NeuralConstellationsScene spread the
\* record, {...emb}, which passes the record's own fields under their own
\* names, and add the named props.
glyphProps_HoverOnly(d, emb, sel, hov) ==
  [clusterId |-> emb.cluster,
   isSelected |-> sel = emb.id,
   isHovered |-> hov = emb.id]

glyphProps(d, emb, sel, hov) ==
  CASE d = "pixi" ->
         [clusterId |-> emb.cluster,
          isSelected |-> sel = emb.id,
          isHovered |-> hov = emb.id /\ sel # emb.id]
    [] d = "three" ->
         [isHovered |-> hov = emb.id /\ sel # emb.id,
          isSelected |-> sel = emb.id] @@ emb
    [] d = "babylon" ->
         [isSelected |-> sel = emb.id] @@ emb

\* CLUSTER_COLORS[clusterId % CLUSTER_COLORS.length] in the glyph component,
\* as the set of valid indices read: a prop that was not passed is undefined,
\* undefined % n is NaN, and the table has no entry NaN.
paletteIndex(props, length) ==
  IF "clusterId" \in DOMAIN props THEN {props.clusterId % length} ELSE {}

\* CLUSTER_COLORS[emb.cluster % CLUSTER_COLORS.length] in the scene's line
\* computation.
lineColorIndex(emb, length) == emb.cluster % length

\* {(isHovered || isSelected) && <name label>} in RuneGlyph and
\* EmbeddingGlyph.
labelShown(props) == props.isHovered \/ props.isSelected

-----------------------------------------------------------------------------
(* The line computations over bounded record lists.                         *)

MaxRecs == 3

\* Positions for the bounded lists of a demo: the origin, a point at exactly
\* the demo's threshold distance from it, and a point just inside it.
PointsOf(d) ==
  CASE d = "pixi"    -> {<<0, 0>>, <<240, 320>>, <<399, 0>>}
    [] d = "three"   -> {<<0, 0, 0>>, <<4, 8, 8>>, <<11, 0, 0>>}
    [] d = "babylon" -> {<<0, 0, 0>>, <<10, 10, 5>>, <<14, 0, 0>>}
    [] d = "deck"    -> {<<0, 0, 0>>, <<27, 36, 0>>, <<44, 0, 0>>}

ClustersOfInputs == {0, 1}

\* The lists of up to MaxRecs records over these positions and clusters, the
\* first record in cluster 0 (the computations only compare clusters).
LineInputs(d) ==
  UNION { { [k \in 1..n |-> [id |-> ToString(k),
                              position |-> f[k][1],
                              cluster |-> f[k][2]]]
            : f \in { g \in [1..n -> PointsOf(d) \X ClustersOfInputs] :
                        n > 0 => g[1][2] = 0 } }
          : n \in 0..MaxRecs }

-----------------------------------------------------------------------------
(* Exact rationals <<n, d>> with d > 0 and gcd(n, d) = 1.                    *)

RECURSIVE GCD(_, _)
GCD(a, b) == IF b = 0 THEN a ELSE GCD(b, a % b)

Abs(a) == IF a < 0 THEN -a ELSE a

Rat(n, d) ==
  LET g == GCD(Abs(n), Abs(d))
      sgn == IF d < 0 THEN -1 ELSE 1
  IN  <<(sgn * n) \div g, (sgn * d) \div g>>

RAdd(a, b) == Rat(a[1] * b[2] + b[1] * a[2], a[2] * b[2])
RSub(a, b) == Rat(a[1] * b[2] - b[1] * a[2], a[2] * b[2])
RMul(a, b) == Rat(a[1] * b[1], a[2] * b[2])
RDiv(a, b) == Rat(a[1] * b[2], a[2] * b[1])
RLess(a, b) == a[1] * b[2] < b[1] * a[2]
RMin(a, b) == IF RLess(b, a) THEN b ELSE a
RMax(a, b) == IF RLess(a, b) THEN b ELSE a

-----------------------------------------------------------------------------
(* ChronoScrollsSceneContent: pan and zoom (part_000:180-251).              *)

SCROLL_WIDTH == 2500
SCROLL_HEIGHT == 1500

\* useState(0.75), and the limits 0.15 and 3.5 of onWheel.
ZOOM_INITIAL == Rat(75, 100)
ZOOM_MIN == Rat(15, 100)
ZOOM_MAX == Rat(35, 10)

\* app.screen.width and app.screen.height.
ScreenWidth == 800
ScreenHeight == 600

MaxPanEvents == 4

\* event.global of the pointer events.
PointerPositions == {<<0, 0>>, <<30, 60>>}

\* event.deltaY of the wheel events: factors 5, 1/2 and -4.
WheelDeltas == {-4000, 500, 5000}

\* The cursor on the canvas (clientX - rect.left, clientY - rect.top): the
\* centre of an 800 x 600 screen, and a point off the centre.
WheelPositions == {<<400, 300>>, <<500, 240>>}

\* A run of the effect: the closure over the render's zoom, viewX, viewY and
\* the locals `let dragging = false; let prevScreenX, prevScreenY`.
NewEffect(z, vp) ==
  [zoom |-> z, viewX |-> vp.x, viewY |-> vp.y,
   dragging |-> FALSE, prevScreenX |-> Null, prevScreenY |-> Null]

\* The effect's dependencies [app, zoom, viewX, viewY] differ from those of
\* its latest run.
EffectStale == <<eff.zoom, eff.viewX, eff.viewY>> # <<zoom, viewport.x, viewport.y>>

\* onDragStart, the stage's pointerdown listener.
onDragStart(p) ==
  /\ focus = "pan"
  /\ nev < MaxPanEvents
  /\ ~ptr.down
  /\ eff' = [eff EXCEPT !.dragging = TRUE, !.prevScreenX = p[1], !.prevScreenY = p[2]]
  /\ cursor' = "grabbing"
  /\ ptr' = [down |-> TRUE, x |-> p[1], y |-> p[2]]
  /\ nev' = nev + 1
  /\ ev' = Event("pointerdown", p)
  /\ UNCHANGED <<viewport, zoom, notPan>>

\* onDragEnd, the stage's pointerup and pointerupoutside listener.
onDragEnd ==
  /\ focus = "pan"
  /\ nev < MaxPanEvents
  /\ ptr.down
  /\ eff' = [eff EXCEPT !.dragging = FALSE]
  /\ cursor' = "grab"
  /\ ptr' = [ptr EXCEPT !.down = FALSE]
  /\ nev' = nev + 1
  /\ ev' = Event("pointerup", Null)
  /\ UNCHANGED <<viewport, zoom, notPan>>

\* The viewport after a move of the closure e to p (the updater of
\* setViewportPosition): pos => ({x: pos.x - dx / zoom, y: pos.y - dy / zoom}).
DragMoved(e, pos, p) ==
  LET dx == p[1] - e.prevScreenX
      dy == p[2] - e.prevScreenY
  IN  [x |-> RSub(pos.x, RDiv(Rat(dx, 1), e.zoom)),
       y |-> RSub(pos.y, RDiv(Rat(dy, 1), e.zoom))]

\* onDragMove, the stage's pointermove listener.
onDragMove(p) ==
  /\ focus = "pan"
  /\ nev < MaxPanEvents
  /\ IF eff.dragging
     THEN /\ viewport' = DragMoved(eff, viewport, p)
          /\ eff' = [eff EXCEPT !.prevScreenX = p[1], !.prevScreenY = p[2]]
     ELSE UNCHANGED <<viewport, eff>>
  /\ ptr' = [ptr EXCEPT !.x = p[1], !.y = p[2]]
  /\ nev' = nev + 1
  /\ ev' = Event("pointermove", p)
  /\ UNCHANGED <<zoom, cursor, notPan>>

\* onWheel: newZoom = max(0.15, min(3.5, zoom * (1 + deltaY * -0.001))).
NewZoom(z, deltaY) ==
  RMax(ZOOM_MIN, RMin(ZOOM_MAX, RMul(z, RAdd(Rat(1, 1), Rat(-deltaY, 1000)))))

\* onWheel: the new view coordinate along one axis, for the cursor m and the
\* screen extent s:  worldPoint = view + (m - s / 2) / zoom;
\*                   newView = worldPoint - (m - s / 2) / newZoom.
NewView(view, m, s, z, newZoom) ==
  LET off == RSub(Rat(m, 1), Rat(s, 2))
      worldPoint == RAdd(view, RDiv(off, z))
  IN  RSub(worldPoint, RDiv(off, newZoom))

\* onWheel, the canvas's wheel listener.
onWheel(deltaY, m) ==
  /\ focus = "pan"
  /\ nev < MaxPanEvents
  /\ LET newZoom == NewZoom(eff.zoom, deltaY)
     IN  /\ zoom' = newZoom
         /\ viewport' = [x |-> NewView(eff.viewX, m[1], ScreenWidth, eff.zoom, newZoom),
                         y |-> NewView(eff.viewY, m[2], ScreenHeight, eff.zoom, newZoom)]
  /\ nev' = nev + 1
  /\ ev' = Event("wheel", <<deltaY, m>>)
  /\ UNCHANGED <<eff, cursor, ptr, notPan>>

\* React renders the component again and, a dependency having changed, runs
\* the effect's cleanup (the listeners are removed) and the effect (new
\* listeners, over new locals).
PanEffectRerun ==
  /\ focus = "pan"
  /\ EffectStale
  /\ eff' = NewEffect(zoom, viewport)
  /\ cursor' = IF cursor # "grabbing" THEN "grab" ELSE cursor
  /\ ev' = Event("render", Null)
  /\ UNCHANGED <<viewport, zoom, ptr, nev, notPan>>

PanInit ==
  /\ viewport = [x |-> Rat(SCROLL_WIDTH, 2), y |-> Rat(SCROLL_HEIGHT, 2)]
  /\ zoom = ZOOM_INITIAL
  /\ eff = NewEffect(ZOOM_INITIAL, [x |-> Rat(SCROLL_WIDTH, 2), y |-> Rat(SCROLL_HEIGHT, 2)])
  /\ cursor = "grab"
  /\ ptr = [down |-> FALSE, x |-> 0, y |-> 0]
  /\ nev = 0

NextPan ==
  \/ \E p \in PointerPositions : onDragStart(p)
  \/ onDragEnd
  \/ \E p \in PointerPositions : onDragMove(p)
  \/ \E deltaY \in WheelDeltas, m \in WheelPositions : onWheel(deltaY, m)
  \/ PanEffectRerun

\* The same events when React has rendered and run the effect again before
\* the next event is delivered.
NextPanSettled ==
  \/ ~EffectStale /\ \E p \in PointerPositions : onDragStart(p)
  \/ ~EffectStale /\ onDragEnd
  \/ ~EffectStale /\ \E p \in PointerPositions : onDragMove(p)
  \/ ~EffectStale /\ \E deltaY \in WheelDeltas, m \in WheelPositions : onWheel(deltaY, m)
  \/ PanEffectRerun

-----------------------------------------------------------------------------
(* BabylonApp (BabylonApp.tsx:199-281) and ThreeJSApp (ThreeJSApp.tsx:165-   *)
(* 261): the renderer's initialisation.  An engine or renderer object is an *)
(* index of `made`; `engine` is the engine state of BabylonApp and the      *)
(* renderer state of ThreeJSApp, engineType the type label of either.       *)

AppDemos == {"babylon", "three"}

\* useState(null): no engine, no renderer.
NoEngine == 0

MaxRuns == 3

NewObject(m, kind) == Append(m, [kind |-> kind, disposed |-> FALSE])

\* x?.dispose()
Dispose(m, id) == IF id = NoEngine THEN m ELSE [m EXCEPT ![id].disposed = TRUE]

\* The component's state, and the objects constructed so far.
AppState == [engine |-> engine, engineType |-> engineType, error |-> error, made |-> made]

\* BabylonApp.initialize, the catch block: the error is set, the WebGL engine
\* is constructed, and type and engine are set, each setter while mounted.
initializeCatch_NoError(s, mounted) ==
  LET m == NewObject(s.made, "WebGL")
  IN  [made |-> m, currentEngine |-> Len(m), error |-> s.error,
       engineType |-> IF mounted THEN "WebGL (Fallback)" ELSE s.engineType,
       engine |-> IF mounted THEN Len(m) ELSE s.engine,
       calls |-> IF mounted THEN {"setEngineType", "setEngine"} ELSE {}]

initializeCatch(s, mounted) ==
  LET m == NewObject(s.made, "WebGL")
  IN  [made |-> m, currentEngine |-> Len(m),
       error |-> IF mounted THEN "BabylonApp WebGPU Error" ELSE s.error,
       engineType |-> IF mounted THEN "WebGL (Fallback)" ELSE s.engineType,
       engine |-> IF mounted THEN Len(m) ELSE s.engine,
       calls |-> IF mounted THEN {"setError", "setEngineType", "setEngine"} ELSE {}]

\* BabylonApp.initialize after initAsync has resolved.
initializeDone(s, cur, mounted) ==
  [made |-> s.made, currentEngine |-> cur, error |-> s.error,
   engineType |-> IF mounted THEN "WebGPU" ELSE s.engineType,
   engine |-> IF mounted THEN cur ELSE s.engine,
   calls |-> IF mounted THEN {"setEngineType", "setEngine"} ELSE {}]

\* ThreeJSApp.initRenderer, the catch block and the statement after the try:
\* the error is set, the WebGLRenderer constructed, the type set, and the
\* renderer stored, each setter while mounted.
initRendererCatch(s, mounted) ==
  LET m == NewObject(s.made, "WebGL")
  IN  [made |-> m, currentEngine |-> Len(m),
       error |-> IF mounted THEN "WebGPU Error" ELSE s.error,
       engineType |-> IF mounted THEN "WebGL (Fallback)" ELSE s.engineType,
       engine |-> IF mounted THEN Len(m) ELSE s.engine,
       calls |-> IF mounted THEN {"setError", "setRendererType", "setRenderer"} ELSE {}]

\* ThreeJSApp.initRenderer after init() has resolved, and the statement after
\* the try.
initRendererDone_NoStore(s, cur, mounted) ==
  [made |-> s.made, currentEngine |-> cur, error |-> s.error,
   engineType |-> IF mounted THEN "WebGPU" ELSE s.engineType,
   engine |-> s.engine,
   calls |-> IF mounted THEN {"setRendererType"} ELSE {}]

initRendererDone(s, cur, mounted) ==
  [made |-> s.made, currentEngine |-> cur, error |-> s.error,
   engineType |-> IF mounted THEN "WebGPU" ELSE s.engineType,
   engine |-> IF cur # NoEngine /\ mounted THEN cur ELSE s.engine,
   calls |-> IF mounted
             THEN {"setRendererType"} \cup (IF cur # NoEngine THEN {"setRenderer"} ELSE {})
             ELSE {}]

CatchOf(d, s, mounted) ==
  IF d = "babylon" THEN initializeCatch(s, mounted) ELSE initRendererCatch(s, mounted)

DoneOf(d, s, cur, mounted) ==
  IF d = "babylon" THEN initializeDone(s, cur, mounted) ELSE initRendererDone(s, cur, mounted)

\* The effect's cleanup, for the run r of the effect: the engine of r's render
\* and r's currentEngine are disposed, and the state is reset.
Cleanup(s, r) ==
  LET m1 == Dispose(s.made, r.engine)
      m2 == IF r.currentEngine # NoEngine /\ r.currentEngine # r.engine
            THEN Dispose(m1, r.currentEngine) ELSE m1
  IN  [made |-> m2, engine |-> NoEngine, engineType |-> "Disposed", error |-> s.error]

AppApply(r) ==
  /\ engine' = r.engine
  /\ engineType' = r.engineType
  /\ error' = r.error
  /\ made' = r.made

\* The completion of run k's initialize / initRenderer, with the React state
\* setters it called.
InitEvent(k, cause, mounted, calls) ==
  Event("initialized", [run |-> k, cause |-> cause, mounted |-> mounted, calls |-> calls])

\* A run of the effect, as run number k, in the state s and closed over the
\* engine eng of its render:
\* isMountedRef.current = true, and the call of initialize / initRenderer up
\* to its first await.  BabylonApp calls initialize when the render's engine
\* is null and the canvas is there; ThreeJSApp calls initRenderer always, and
\* without THREE.WebGPURenderer or navigator.gpu it throws, and falls back,
\* before any await.
EffectRun(s, eng, k, canvas, available) ==
  /\ isMounted' = TRUE
  /\ IF demo = "babylon"
     THEN /\ runs' = Append(runs,
                       [engine |-> eng, currentEngine |-> NoEngine,
                        pc |-> IF eng = NoEngine /\ canvas
                               THEN "awaitSupported" ELSE "idle"])
          /\ AppApply(s)
          /\ ev' = Event("effect", k)
     ELSE IF available
     THEN /\ runs' = Append(runs,
                       [engine |-> eng, currentEngine |-> NoEngine,
                        pc |-> "awaitAdapter"])
          /\ AppApply(s)
          /\ ev' = Event("effect", k)
     ELSE LET r == initRendererCatch(s, TRUE)
          IN  /\ runs' = Append(runs,
                           [engine |-> eng, currentEngine |-> r.currentEngine,
                            pc |-> "done"])
              /\ AppApply(r)
              /\ ev' = InitEvent(k, "unavailable", TRUE, r.calls)

\* The first run of the effect, after the first render.
AppMount ==
  /\ focus = "app"
  /\ phase = "rendered"
  /\ phase' = "mounted"
  /\ \E available \in BOOLEAN :
       /\ demo = "babylon" => available
       /\ EffectRun(AppState, engine, 1, canvasRef, available)
  /\ UNCHANGED <<canvasRef, rendered, notApp>>

\* A render after a state change, and its effects: the canvas is rendered
\* only while the type is "Initializing..."; when the dependency [engine] /
\* [renderer] has changed, the cleanup of the effect's latest run and then
\* the effect run.
AppRender ==
  /\ focus = "app"
  /\ phase = "mounted"
  /\ <<engine, engineType, error>> # rendered
  /\ rendered' = <<engine, engineType, error>>
  /\ canvasRef' = (demo = "babylon" /\ engineType = "Initializing...")
  /\ IF engine # runs[Len(runs)].engine
     THEN /\ Len(runs) < MaxRuns
          /\ \E available \in BOOLEAN :
               /\ demo = "babylon" => available
               /\ EffectRun(Cleanup(AppState, runs[Len(runs)]), engine,
                            Len(runs) + 1, canvasRef', available)
     ELSE /\ ev' = Event("render", Null)
          /\ UNCHANGED <<engine, engineType, error, made, runs, isMounted>>
  /\ UNCHANGED <<phase, notApp>>

\* The awaited WebGPUEngine.IsSupportedAsync of run k settles: supported and
\* the WebGPUEngine constructed ("ok"), resolved false, or the constructor
\* throws.
ResolveSupported(k, outcome) ==
  /\ focus = "app"
  /\ demo = "babylon"
  /\ runs[k].pc = "awaitSupported"
  /\ IF outcome = "ok"
     THEN /\ made' = NewObject(made, "WebGPU")
          /\ runs' = [runs EXCEPT ![k].currentEngine = Len(made) + 1, ![k].pc = "awaitInit"]
          /\ ev' = Event("await", k)
          /\ UNCHANGED <<engine, engineType, error>>
     ELSE LET r == initializeCatch(AppState, isMounted)
          IN  /\ AppApply(r)
              /\ runs' = [runs EXCEPT ![k].currentEngine = r.currentEngine, ![k].pc = "done"]
              /\ ev' = InitEvent(k, outcome, isMounted, r.calls)
  /\ UNCHANGED <<phase, isMounted, canvasRef, rendered, notApp>>

\* The awaited navigator.gpu.requestAdapter() of run k settles: an adapter and
\* the WebGPURenderer constructed ("ok"), no adapter, or the constructor
\* throws.
ResolveAdapter(k, outcome) ==
  /\ focus = "app"
  /\ demo = "three"
  /\ runs[k].pc = "awaitAdapter"
  /\ IF outcome = "ok"
     THEN /\ made' = NewObject(made, "WebGPU")
          /\ runs' = [runs EXCEPT ![k].currentEngine = Len(made) + 1, ![k].pc = "awaitInit"]
          /\ ev' = Event("await", k)
          /\ UNCHANGED <<engine, engineType, error>>
     ELSE LET r == initRendererCatch(AppState, isMounted)
          IN  /\ AppApply(r)
              /\ runs' = [runs EXCEPT ![k].currentEngine = r.currentEngine, ![k].pc = "done"]
              /\ ev' = InitEvent(k, outcome, isMounted, r.calls)
  /\ UNCHANGED <<phase, isMounted, canvasRef, rendered, notApp>>

\* The awaited initAsync() / init() of run k settles: resolved ("ok") or
\* rejected ("initThrows").
ResolveInit(k, outcome) ==
  /\ focus = "app"
  /\ runs[k].pc = "awaitInit"
  /\ LET r == IF outcome = "ok"
              THEN DoneOf(demo, AppState, runs[k].currentEngine, isMounted)
              ELSE CatchOf(demo, AppState, isMounted)
     IN  /\ AppApply(r)
         /\ runs' = [runs EXCEPT ![k].currentEngine = r.currentEngine, ![k].pc = "done"]
         /\ ev' = InitEvent(k, outcome, isMounted, r.calls)
  /\ UNCHANGED <<phase, isMounted, canvasRef, rendered, notApp>>

\* The component unmounts: the cleanup of the effect's latest run.
AppUnmount ==
  /\ focus = "app"
  /\ phase = "mounted"
  /\ phase' = "unmounted"
  /\ isMounted' = FALSE
  /\ AppApply(Cleanup(AppState, runs[Len(runs)]))
  /\ canvasRef' = FALSE
  /\ ev' = Event("unmount", Null)
  /\ UNCHANGED <<runs, rendered, notApp>>

AppInit ==
  /\ engine = NoEngine
  /\ engineType = "Initializing..."
  /\ error = Null
  /\ isMounted = TRUE
  /\ canvasRef = (demo = "babylon")
  /\ rendered = <<NoEngine, "Initializing...", Null>>
  /\ made = <<>>
  /\ runs = <<>>

NextApp ==
  \/ AppMount
  \/ AppRender
  \/ \E k \in 1..Len(runs), outcome \in {"ok", "unsupported", "ctorThrows"} :
       ResolveSupported(k, outcome)
  \/ \E k \in 1..Len(runs), outcome \in {"ok", "noAdapter", "ctorThrows"} :
       ResolveAdapter(k, outcome)
  \/ \E k \in 1..Len(runs), outcome \in {"ok", "initThrows"} : ResolveInit(k, outcome)
  \/ AppUnmount

-----------------------------------------------------------------------------
(* DeckGLApp: the animation effect (part_001:52-60).  `time` counts          *)
(* thousandths; rafPending holds the ids of the animation-frame requests    *)
(* that are outstanding.                                                    *)

\* setTime(t => t + 0.015), in thousandths.
TIME_STEP == 15

MaxFrames == 60

\* animate, the callback of the request id.
animate_Twice(t, pending, id, next) ==
  [time |-> t + TIME_STEP, pending |-> (pending \ {id}) \cup {next, next + 1},
   animationFrameId |-> next + 1, next |-> next + 2]

animate(t, pending, id, next) ==
  [time |-> t + TIME_STEP, pending |-> (pending \ {id}) \cup {next},
   animationFrameId |-> next, next |-> next + 1]

\* The effect: animationFrameId = requestAnimationFrame(animate).
DeckMount ==
  /\ focus = "deck"
  /\ phase = "rendered"
  /\ phase' = "mounted"
  /\ rafPending' = rafPending \cup {rafNext}
  /\ animationFrameId' = rafNext
  /\ rafNext' = rafNext + 1
  /\ ev' = Event("effect", Null)
  /\ UNCHANGED <<time, notDeck>>

\* The browser runs the callback of an outstanding request.
DeckFrame(id) ==
  /\ focus = "deck"
  /\ id \in rafPending
  /\ time < MaxFrames * TIME_STEP
  /\ LET r == animate(time, rafPending, id, rafNext)
     IN  /\ time' = r.time
         /\ rafPending' = r.pending
         /\ animationFrameId' = r.animationFrameId
         /\ rafNext' = r.next
  /\ ev' = Event("frame", id)
  /\ UNCHANGED <<phase, notDeck>>

\* The effect's cleanup: cancelAnimationFrame(animationFrameId).
DeckUnmount ==
  /\ focus = "deck"
  /\ phase = "mounted"
  /\ phase' = "unmounted"
  /\ rafPending' = rafPending \ {animationFrameId}
  /\ ev' = Event("unmount", Null)
  /\ UNCHANGED <<time, animationFrameId, rafNext, notDeck>>

DeckInit ==
  /\ time = 0
  /\ animationFrameId = 0
  /\ rafPending = {}
  /\ rafNext = 1

NextDeck ==
  \/ DeckMount
  \/ \E id \in rafPending : DeckFrame(id)
  \/ DeckUnmount

-----------------------------------------------------------------------------
(* PixiApp (part_000:298-368) and initializePixiAssets (part_000:22-36).    *)
(* A promise is an index of `promises`.  The module's variable              *)
(* pixiAssetsInitializedPromise outlives the component's instances; each    *)
(* mount is a new instance with its own state and its own isMountedRef.     *)

notAssets == <<focus, demo, sceneVars, panVars, appVars, deckVars, threadVars, runeVars, earlyVars, starVars, hoverVars>>

\* let pixiAssetsInitializedPromise = null
NoPromise == 0

MaxMounts == 3

\* The state of a promise: its own, or that of the promise it adopts.
Settled_AnyOutcome(ps, p) ==
  LET st == IF ps[p].of = NoPromise THEN ps[p].state ELSE ps[ps[p].of].state
  IN  IF st = "pending" THEN "pending" ELSE "resolved"

Settled(ps, p) == IF ps[p].of = NoPromise THEN ps[p].state ELSE ps[ps[p].of].state

\* initializePixiAssets over s = [assetsPromise, promises, initCalls]: when
\* the module's promise is null, PIXI.Assets.init({}) is called and the
\* promise of its then / catch chain is kept; an async function, it returns a
\* new promise (result) that adopts the one it returns.
initializePixiAssets_NoCache(s) ==
  LET c == Len(s.promises) + 1
  IN  [assetsPromise |-> c,
       promises |-> s.promises \o <<[state |-> "pending", of |-> NoPromise],
                                    [state |-> "pending", of |-> c]>>,
       initCalls |-> s.initCalls + 1,
       result |-> c + 1]

initializePixiAssets(s) ==
  LET s1 == IF s.assetsPromise = NoPromise
            THEN [assetsPromise |-> Len(s.promises) + 1,
                  promises |-> Append(s.promises, [state |-> "pending", of |-> NoPromise]),
                  initCalls |-> s.initCalls + 1]
            ELSE [assetsPromise |-> s.assetsPromise, promises |-> s.promises,
                  initCalls |-> s.initCalls]
  IN  [assetsPromise |-> s1.assetsPromise,
       promises |-> Append(s1.promises, [state |-> "pending", of |-> s1.assetsPromise]),
       initCalls |-> s1.initCalls,
       result |-> Len(s1.promises) + 1]

\* The two effects of PixiApp, on mount: each sets isMountedRef.current and
\* calls initializePixiAssets().then(callback).
PixiMount ==
  /\ focus = "assets"
  /\ phase = "rendered"
  /\ phase' = "mounted"
  /\ LET r1 == initializePixiAssets([assetsPromise |-> assetsPromise,
                                     promises |-> promises, initCalls |-> initCalls])
         r2 == initializePixiAssets([assetsPromise |-> r1.assetsPromise,
                                     promises |-> r1.promises, initCalls |-> r1.initCalls])
     IN  /\ assetsPromise' = r2.assetsPromise
         /\ promises' = r2.promises
         /\ initCalls' = r2.initCalls
         /\ callbacks' = callbacks \cup {[p |-> r1.result, inst |-> pixi.inst, effect |-> 1],
                                         [p |-> r2.result, inst |-> pixi.inst, effect |-> 2]}
  /\ pixi' = [pixi EXCEPT !.isMounted = TRUE]
  /\ ev' = Event("effect", pixi.inst)
  /\ UNCHANGED notAssets

\* PIXI.Assets.init({}) settles, and with it the promise of its chain: the
\* then passes a fulfilment on, the catch throws the rejection again.
AssetsSettle(ok) ==
  /\ focus = "assets"
  /\ assetsPromise # NoPromise
  /\ promises[assetsPromise].state = "pending"
  /\ promises' = [promises EXCEPT ![assetsPromise].state = IF ok THEN "resolved" ELSE "rejected"]
  /\ ev' = Event("settle", ok)
  /\ UNCHANGED <<phase, assetsPromise, initCalls, callbacks, pixi, notAssets>>

\* The then-callback of an effect: the setters it calls, given
\* isMountedRef.current of its instance.
thenCallback_Unguarded(effect, mounted) ==
  IF effect = 1 THEN {"setIsPixiAssetsReady"}
  ELSE {"setIsPixiAssetsReady", "setRendererType"}

thenCallback(effect, mounted) ==
  IF ~mounted THEN {}
  ELSE IF effect = 1 THEN {"setIsPixiAssetsReady"}
  ELSE {"setIsPixiAssetsReady", "setRendererType"}

\* A then-callback runs once its promise is fulfilled.  The ref and the
\* setters are those of the callback's instance; an instance that was
\* replaced by a later mount is unmounted.
PixiThen(cb) ==
  /\ focus = "assets"
  /\ cb \in callbacks
  /\ Settled(promises, cb.p) = "resolved"
  /\ callbacks' = callbacks \ {cb}
  /\ LET mounted == cb.inst = pixi.inst /\ pixi.isMounted
         calls == thenCallback(cb.effect, mounted)
     IN  /\ pixi' = IF cb.inst = pixi.inst
                    THEN [pixi EXCEPT
                            !.isPixiAssetsReady =
                               IF "setIsPixiAssetsReady" \in calls THEN TRUE ELSE @,
                            !.rendererType =
                               IF "setRendererType" \in calls THEN "Ready" ELSE @]
                    ELSE pixi
         /\ ev' = Event("then", [inst |-> cb.inst, effect |-> cb.effect, calls |-> calls])
  /\ UNCHANGED <<phase, assetsPromise, promises, initCalls, notAssets>>

\* The component unmounts: the cleanups of both effects.
PixiUnmount ==
  /\ focus = "assets"
  /\ phase = "mounted"
  /\ phase' = "unmounted"
  /\ pixi' = [pixi EXCEPT !.isMounted = FALSE]
  /\ ev' = Event("unmount", Null)
  /\ UNCHANGED <<assetsPromise, promises, initCalls, callbacks, notAssets>>

\* A later mount of PixiApp: a new instance, first render.
PixiRemount ==
  /\ focus = "assets"
  /\ phase = "unmounted"
  /\ pixi.inst < MaxMounts
  /\ phase' = "rendered"
  /\ pixi' = [inst |-> pixi.inst + 1, isPixiAssetsReady |-> FALSE,
              rendererType |-> "Initializing Assets...", isMounted |-> TRUE]
  /\ ev' = Event("mount", Null)
  /\ UNCHANGED <<assetsPromise, promises, initCalls, callbacks, notAssets>>

\* What PixiApp renders.
PixiShown == IF pixi.isPixiAssetsReady THEN "Application" ELSE "Initializing PixiJS Assets..."

AssetsInit ==
  /\ assetsPromise = NoPromise
  /\ promises = <<>>
  /\ initCalls = 0
  /\ callbacks = {}
  /\ pixi = [inst |-> 1, isPixiAssetsReady |-> FALSE,
             rendererType |-> "Initializing Assets...", isMounted |-> TRUE]

NextAssets ==
  \/ PixiMount
  \/ \E ok \in BOOLEAN : AssetsSettle(ok)
  \/ \E cb \in callbacks : PixiThen(cb)
  \/ PixiUnmount
  \/ PixiRemount

-----------------------------------------------------------------------------
(* WeavingThread (part_000:145-174): progress counts 1/10000, deltaTime     *)
(* tenths, so that delta * 0.025 is 25 units for each tenth.                *)

notThread == <<focus, demo, phase, sceneVars, panVars, appVars, deckVars, assetsVars, runeVars, earlyVars, starVars, hoverVars>>

\* The 1 of `progress < 1` and of Math.min(1, ...).
PROGRESS_ONE == 10000

\* delta * 0.025.
PROGRESS_RATE == 25

\* ticker.deltaTime, in tenths: no time elapsed, a nominal frame, and two
\* slow ones.
DeltaTimes == {0, 10, 25, 40}

Min(a, b) == IF a < b THEN a ELSE b

\* The tick callback: if (progress < 1) setProgress(p => Math.min(1, p + delta * 0.025)),
\* `seen` the progress of the callback's render and p the current state.
threadTick_NoMin(seen, p, delta) ==
  IF seen < PROGRESS_ONE THEN p + delta * PROGRESS_RATE ELSE p

threadTick(seen, p, delta) ==
  IF seen < PROGRESS_ONE THEN Min(PROGRESS_ONE, p + delta * PROGRESS_RATE) ELSE p

\* A tick of the application's ticker.
ThreadTick(delta) ==
  /\ focus = "thread"
  /\ progress' = threadTick(progressSeen, progress, delta)
  /\ ev' = Event("tick", delta)
  /\ UNCHANGED <<progressSeen, notThread>>

\* The component renders after a change of progress, and useTick registers
\* the callback of that render.
ThreadRender ==
  /\ focus = "thread"
  /\ progressSeen # progress
  /\ progressSeen' = progress
  /\ ev' = Event("render", Null)
  /\ UNCHANGED <<progress, notThread>>

\* useState(0), when the thread is created.
ThreadInit ==
  /\ progress = 0
  /\ progressSeen = 0

NextThread ==
  \/ \E delta \in DeltaTimes : ThreadTick(delta)
  \/ ThreadRender

-----------------------------------------------------------------------------
(* RuneGlyph (part_000:61-142): the scale interpolation of its tick         *)
(* callback, over exact rationals.                                          *)

notRune == <<focus, demo, phase, sceneVars, panVars, appVars, deckVars, assetsVars, threadVars, earlyVars, starVars, hoverVars>>

MaxTicks == 4

\* ticker.deltaTime, in tenths of a frame: 0, 0.2, 0.5, and 1, one frame at
\* the nominal frame rate.
RuneDeltas == {0, 2, 5, 10}

\* isSelected and isHovered of a render: isHovered is passed as
\* hoveredRune === emb.id && selectedRune !== emb.id.
RuneProps ==
  { [isSelected |-> s, isHovered |-> h] : s \in BOOLEAN, h \in BOOLEAN } \
    { [isSelected |-> TRUE, isHovered |-> TRUE] }

\* const targetScale = isSelected ? 1.28 : (isHovered ? 1.18 : 1)
targetScale(props) ==
  IF props.isSelected THEN Rat(128, 100)
  ELSE IF props.isHovered THEN Rat(118, 100) ELSE Rat(1, 1)

\* currentScaleRef.current += (targetScale - currentScaleRef.current) * 0.2 * delta * 10,
\* delta in tenths.
scaleTick(cur, target, delta) ==
  RAdd(cur, RMul(RMul(RMul(RSub(target, cur), Rat(2, 10)), Rat(delta, 10)), Rat(10, 1)))

\* A tick of the application's ticker.
RuneTick(delta) ==
  /\ focus = "rune"
  /\ nticks < MaxTicks
  /\ currentScale' = scaleTick(currentScale, targetScale(runeProps), delta)
  /\ nticks' = nticks + 1
  /\ ev' = Event("tick", delta)
  /\ UNCHANGED <<runeProps, notRune>>

\* The glyph is rendered with other props: selected, hovered, or neither.
RuneRender(props) ==
  /\ focus = "rune"
  /\ props # runeProps
  /\ runeProps' = props
  /\ ev' = Event("render", Null)
  /\ UNCHANGED <<currentScale, nticks, notRune>>

\* useRef(1), in a glyph neither selected nor hovered.
RuneInit ==
  /\ currentScale = Rat(1, 1)
  /\ runeProps = [isSelected |-> FALSE, isHovered |-> FALSE]
  /\ nticks = 0

NextRune ==
  \/ \E delta \in RuneDeltas : RuneTick(delta)
  \/ \E props \in RuneProps : RuneRender(props)

-----------------------------------------------------------------------------
(* The earlier variant of PixiApp (part_000:376-725): asset initialisation  *)
(* with the WebGPU preference and a fallback to the default.                *)

notEarly == <<focus, demo, sceneVars, panVars, appVars, deckVars, assetsVars, threadVars, runeVars, starVars, hoverVars>>

\* initializePixiAssets of the earlier variant, over s = [promise, attempts]:
\* when the module's promise is null the async block starts and calls
\* PIXI.Assets.init with preferWebGPU; the block's promise is kept.
initializePixiAssetsWebGPU(s) ==
  IF s.promise = "null"
  THEN [promise |-> "pending",
        attempts |-> Append(s.attempts, [prefs |-> "preferWebGPU", state |-> "pending"])]
  ELSE s

\* The async block continues when the PIXI.Assets.init it awaits settles:
\* after the try's await it ends, and in the catch it calls
\* PIXI.Assets.init({}) and awaits that; a rejection of the second await
\* leaves the block.
attemptSettled_NoFallback(s, ok) ==
  [promise |-> IF ok THEN "resolved" ELSE "rejected",
   attempts |-> [s.attempts EXCEPT ![Len(s.attempts)].state =
                                      IF ok THEN "resolved" ELSE "rejected"]]

attemptSettled(s, ok) ==
  LET n == Len(s.attempts)
      done == [s.attempts EXCEPT ![n].state = IF ok THEN "resolved" ELSE "rejected"]
  IN  IF ok THEN [promise |-> "resolved", attempts |-> done]
      ELSE IF s.attempts[n].prefs = "preferWebGPU"
      THEN [promise |-> "pending",
            attempts |-> Append(done, [prefs |-> "default", state |-> "pending"])]
      ELSE [promise |-> "rejected", attempts |-> done]

\* The effect of PixiApp, on mount.
EarlyMount ==
  /\ focus = "early"
  /\ phase = "rendered"
  /\ phase' = "mounted"
  /\ LET r == initializePixiAssetsWebGPU([promise |-> earlyPromise, attempts |-> earlyAttempts])
     IN  /\ earlyPromise' = r.promise
         /\ earlyAttempts' = r.attempts
  /\ earlyCallbacks' = earlyCallbacks \cup {earlyApp.inst}
  /\ earlyApp' = [earlyApp EXCEPT !.isMounted = TRUE]
  /\ ev' = Event("effect", earlyApp.inst)
  /\ UNCHANGED notEarly

\* The pending PIXI.Assets.init settles.
EarlySettle(ok) ==
  /\ focus = "early"
  /\ earlyAttempts # <<>>
  /\ earlyAttempts[Len(earlyAttempts)].state = "pending"
  /\ LET r == attemptSettled([promise |-> earlyPromise, attempts |-> earlyAttempts], ok)
     IN  /\ earlyPromise' = r.promise
         /\ earlyAttempts' = r.attempts
  /\ ev' = Event("settle", ok)
  /\ UNCHANGED <<phase, earlyCallbacks, earlyApp, notEarly>>

\* A then-callback runs once the promise is fulfilled.
EarlyThen(inst) ==
  /\ focus = "early"
  /\ inst \in earlyCallbacks
  /\ earlyPromise = "resolved"
  /\ earlyCallbacks' = earlyCallbacks \ {inst}
  /\ earlyApp' = IF inst = earlyApp.inst /\ earlyApp.isMounted
                 THEN [earlyApp EXCEPT !.isPixiAssetsReady = TRUE]
                 ELSE earlyApp
  /\ ev' = Event("then", inst)
  /\ UNCHANGED <<phase, earlyPromise, earlyAttempts, notEarly>>

\* The component unmounts: the cleanup of the effect.
EarlyUnmount ==
  /\ focus = "early"
  /\ phase = "mounted"
  /\ phase' = "unmounted"
  /\ earlyApp' = [earlyApp EXCEPT !.isMounted = FALSE]
  /\ ev' = Event("unmount", Null)
  /\ UNCHANGED <<earlyPromise, earlyAttempts, earlyCallbacks, notEarly>>

\* A later mount of PixiApp: a new instance, first render.
EarlyRemount ==
  /\ focus = "early"
  /\ phase = "unmounted"
  /\ earlyApp.inst < MaxMounts
  /\ phase' = "rendered"
  /\ earlyApp' = [inst |-> earlyApp.inst + 1, isPixiAssetsReady |-> FALSE, isMounted |-> TRUE]
  /\ ev' = Event("mount", Null)
  /\ UNCHANGED <<earlyPromise, earlyAttempts, earlyCallbacks, notEarly>>

EarlyInit ==
  /\ earlyPromise = "null"
  /\ earlyAttempts = <<>>
  /\ earlyCallbacks = {}
  /\ earlyApp = [inst |-> 1, isPixiAssetsReady |-> FALSE, isMounted |-> TRUE]

NextEarly ==
  \/ EarlyMount
  \/ \E ok \in BOOLEAN : EarlySettle(ok)
  \/ \E inst \in 1..MaxMounts : EarlyThen(inst)
  \/ EarlyUnmount
  \/ EarlyRemount

-----------------------------------------------------------------------------
(* StarCore and NeuralConstellationsScene of part_003: the pointer observer *)
(* each StarCore registers on the scene, and the pick that runs them.       *)

notStar == <<focus, demo, sceneVars, panVars, appVars, deckVars, assetsVars, threadVars, runeVars, earlyVars, hoverVars>>

MaxStarRenders == 5

Stars == IdsOf(MOCK_EMBEDDINGS_BABYLON)

\* The cleanup of a StarCore's observer effect:
\* scene.onPointerObservable.remove(pointerObserver), for the observer the
\* effect's run of render old added (0: the effect has not run).
observerCleanup(obs, star, old) ==
  SelectSeq(obs, LAMBDA o : ~(o.star = star /\ o.render = old))

\* The observer effect of one StarCore after a render: onClick is a new
\* function at every render of the parent, so the effect runs again, cleanup
\* first, and adds an observer that holds this render's onClick.
observerEffect_NoCleanup(obs, star, old, render) ==
  Append(obs, [star |-> star, render |-> render])

observerEffect(obs, star, old, render) ==
  Append(observerCleanup(obs, star, old), [star |-> star, render |-> render])

\* The effects of all StarCores after a render, in the order of the list.
RECURSIVE starEffects(_, _, _, _)
starEffects(obs, reg, render, k) ==
  IF k > Len(MOCK_EMBEDDINGS_BABYLON) THEN obs
  ELSE LET star == MOCK_EMBEDDINGS_BABYLON[k].id
       IN  starEffects(observerEffect(obs, star, reg[star], render), reg, render, k + 1)

\* The cleanups of all StarCores at unmount.
RECURSIVE starCleanups(_, _, _)
starCleanups(obs, reg, k) ==
  IF k > Len(MOCK_EMBEDDINGS_BABYLON) THEN obs
  ELSE LET star == MOCK_EMBEDDINGS_BABYLON[k].id
       IN  starCleanups(observerCleanup(obs, star, reg[star]), reg, k + 1)

\* A POINTERPICK that hit mesh is notified to every observer; those whose
\* mesh is the picked one call their onClick: the stars whose onClick runs,
\* in order.
pickCalls(obs, mesh) ==
  LET hit == SelectSeq(obs, LAMBDA o : o.star = mesh)
  IN  [i \in 1..Len(hit) |-> hit[i].star]

\* onClick = () => handleStarClick(emb.id), for each call in turn; the
\* updates of setSelectedStarId are functional.
RECURSIVE applyClicks(_, _)
applyClicks(prevId, calls) ==
  IF calls = <<>> THEN prevId
  ELSE applyClicks(handleStarClick(prevId, Head(calls)), Tail(calls))

\* The scene's first effects.
StarMount ==
  /\ focus = "star"
  /\ phase = "rendered"
  /\ phase' = "mounted"
  /\ observers' = starEffects(observers, registered, starRenders, 1)
  /\ registered' = [s \in Stars |-> starRenders]
  /\ ev' = Event("effect", starRenders)
  /\ UNCHANGED <<selectedStarId, starRenders, notStar>>

\* NeuralConstellationsScene renders again, and the effects follow.
StarRender ==
  /\ focus = "star"
  /\ phase = "mounted"
  /\ starRenders < MaxStarRenders
  /\ starRenders' = starRenders + 1
  /\ observers' = starEffects(observers, registered, starRenders + 1, 1)
  /\ registered' = [s \in Stars |-> starRenders + 1]
  /\ ev' = Event("render", starRenders + 1)
  /\ UNCHANGED <<phase, selectedStarId, notStar>>

\* A pointer pick on the scene: on a star's sphere, or on nothing (Null).
\* A changed selectedStarId renders the scene again.
StarPick(mesh) ==
  /\ focus = "star"
  /\ phase = "mounted"
  /\ starRenders < MaxStarRenders
  /\ LET calls == pickCalls(observers, mesh)
         sel == applyClicks(selectedStarId, calls)
         render == IF sel = selectedStarId THEN starRenders ELSE starRenders + 1
     IN  /\ selectedStarId' = sel
         /\ starRenders' = render
         /\ observers' = IF sel = selectedStarId THEN observers
                         ELSE starEffects(observers, registered, render, 1)
         /\ registered' = [s \in Stars |-> render]
         /\ ev' = Event("pick", [mesh |-> mesh, calls |-> calls])
  /\ UNCHANGED <<phase, notStar>>

\* The scene unmounts: the cleanup of every StarCore's effect.
StarUnmount ==
  /\ focus = "star"
  /\ phase = "mounted"
  /\ phase' = "unmounted"
  /\ observers' = starCleanups(observers, registered, 1)
  /\ registered' = [s \in Stars |-> 0]
  /\ ev' = Event("unmount", Null)
  /\ UNCHANGED <<selectedStarId, starRenders, notStar>>

\* The scene is mounted again: new components, first render.
StarRemount ==
  /\ focus = "star"
  /\ phase = "unmounted"
  /\ starRenders < MaxStarRenders
  /\ phase' = "rendered"
  /\ starRenders' = starRenders + 1
  /\ selectedStarId' = Null
  /\ ev' = Event("mount", Null)
  /\ UNCHANGED <<observers, registered, notStar>>

StarInit ==
  /\ selectedStarId = Null
  /\ observers = <<>>
  /\ registered = [s \in Stars |-> 0]
  /\ starRenders = 1

NextStar ==
  \/ StarMount
  \/ StarRender
  \/ \E mesh \in Stars \cup {Null} : StarPick(mesh)
  \/ StarUnmount
  \/ StarRemount

-----------------------------------------------------------------------------
(* The pointerover and pointerout events of the glyphs of the Pixi and      *)
(* Three.js scenes, as one pointer delivers them: a pointerout goes to a    *)
(* glyph that received a pointerover, and when the pointer passes from one  *)
(* glyph to another the two events come in either order.                    *)

notHover == <<focus, demo, phase, records, selected, panVars, appVars, deckVars, assetsVars, threadVars, runeVars, earlyVars, starVars>>

\* onPointerOver of the glyph id: setHoveredRune(emb.id) / setHoveredGlyph(id).
onPointerOver(prev, id) == id

\* onPointerOut of the glyph id: setHoveredRune(null) / setHoveredGlyph(null).
onPointerOut(prev, id) == Null

\* The pointer comes over glyph id; at most one other glyph still waits for
\* its pointerout.
HoverOver(id) ==
  /\ focus = "hover"
  /\ id \in IdsOf(records) \ over
  /\ Cardinality(over) <= 1
  /\ over' = over \cup {id}
  /\ hovered' = onPointerOver(hovered, id)
  /\ lines' = RenderLines(demo, records, selected, hovered', lines)
  /\ ev' = Event("pointerover", id)
  /\ UNCHANGED notHover

\* Glyph id, which the pointer has left, receives its pointerout.
HoverOut(id) ==
  /\ focus = "hover"
  /\ id \in over
  /\ over' = over \ {id}
  /\ hovered' = onPointerOut(hovered, id)
  /\ lines' = RenderLines(demo, records, selected, hovered', lines)
  /\ ev' = Event("pointerout", id)
  /\ UNCHANGED notHover

HoverInit == over = {}

NextHover ==
  \/ \E id \in IdsOf(records) : HoverOver(id)
  \/ \E id \in IdsOf(records) : HoverOut(id)

-----------------------------------------------------------------------------
(* Specifications.                                                          *)

InitScene ==
  /\ focus = "scene"
  /\ demo \in Demos
  /\ phase = "mounted"
  /\ SceneInit(MockOf(demo))
  /\ PanInit /\ AppInit /\ DeckInit /\ AssetsInit /\ ThreadInit /\ RuneInit /\ EarlyInit /\ StarInit /\ HoverInit
  /\ ev = Event("mount", Null)

SpecScene == InitScene /\ [][NextScene]_vars

InitLines ==
  /\ focus = "scene"
  /\ demo \in Demos
  /\ phase = "mounted"
  /\ \E recs \in LineInputs(demo) \cup {MockOf(demo)} : SceneInit(recs)
  /\ PanInit /\ AppInit /\ DeckInit /\ AssetsInit /\ ThreadInit /\ RuneInit /\ EarlyInit /\ StarInit /\ HoverInit
  /\ ev = Event("mount", Null)

SpecLines == InitLines /\ [][NextScene]_vars

InitPan ==
  /\ focus = "pan"
  /\ demo = "pixi"
  /\ phase = "mounted"
  /\ SceneInit(MockOf(demo))
  /\ PanInit /\ AppInit /\ DeckInit /\ AssetsInit /\ ThreadInit /\ RuneInit /\ EarlyInit /\ StarInit /\ HoverInit
  /\ ev = Event("mount", Null)

SpecPan == InitPan /\ [][NextPan]_vars

SpecPanSettled == InitPan /\ [][NextPanSettled]_vars

InitApp ==
  /\ focus = "app"
  /\ demo \in AppDemos
  /\ phase = "rendered"
  /\ SceneInit(MockOf(demo))
  /\ PanInit /\ AppInit /\ DeckInit /\ AssetsInit /\ ThreadInit /\ RuneInit /\ EarlyInit /\ StarInit /\ HoverInit
  /\ ev = Event("mount", Null)

SpecApp == InitApp /\ [][NextApp]_vars

InitDeck ==
  /\ focus = "deck"
  /\ demo = "deck"
  /\ phase = "rendered"
  /\ SceneInit(MockOf(demo))
  /\ PanInit /\ AppInit /\ DeckInit /\ AssetsInit /\ ThreadInit /\ RuneInit /\ EarlyInit /\ StarInit /\ HoverInit
  /\ ev = Event("mount", Null)

SpecDeck == InitDeck /\ [][NextDeck]_vars

InitAssets ==
  /\ focus = "assets"
  /\ demo = "pixi"
  /\ phase = "rendered"
  /\ SceneInit(MockOf(demo))
  /\ PanInit /\ AppInit /\ DeckInit /\ AssetsInit /\ ThreadInit /\ RuneInit /\ EarlyInit /\ StarInit /\ HoverInit
  /\ ev = Event("mount", Null)

SpecAssets == InitAssets /\ [][NextAssets]_vars

InitThread ==
  /\ focus = "thread"
  /\ demo = "pixi"
  /\ phase = "mounted"
  /\ SceneInit(MockOf(demo))
  /\ PanInit /\ AppInit /\ DeckInit /\ AssetsInit /\ ThreadInit /\ RuneInit /\ EarlyInit /\ StarInit /\ HoverInit
  /\ ev = Event("mount", Null)

\* The ticker keeps ticking, and time elapses between ticks again and again.
SpecThread ==
  /\ InitThread
  /\ [][NextThread]_vars
  /\ WF_vars(\E delta \in DeltaTimes \ {0} : ThreadTick(delta))

InitRune ==
  /\ focus = "rune"
  /\ demo = "pixi"
  /\ phase = "mounted"
  /\ SceneInit(MockOf(demo))
  /\ PanInit /\ AppInit /\ DeckInit /\ AssetsInit /\ ThreadInit /\ RuneInit /\ EarlyInit /\ StarInit /\ HoverInit
  /\ ev = Event("mount", Null)

SpecRune == InitRune /\ [][NextRune]_vars

InitEarly ==
  /\ focus = "early"
  /\ demo = "pixi"
  /\ phase = "rendered"
  /\ SceneInit(MockOf(demo))
  /\ PanInit /\ AppInit /\ DeckInit /\ AssetsInit /\ ThreadInit /\ RuneInit /\ EarlyInit /\ StarInit /\ HoverInit
  /\ ev = Event("mount", Null)

SpecEarly == InitEarly /\ [][NextEarly]_vars

InitStar ==
  /\ focus = "star"
  /\ demo = "babylon"
  /\ phase = "rendered"
  /\ SceneInit(MockOf(demo))
  /\ PanInit /\ AppInit /\ DeckInit /\ AssetsInit /\ ThreadInit /\ RuneInit /\ EarlyInit /\ StarInit /\ HoverInit
  /\ ev = Event("mount", Null)

SpecStar == InitStar /\ [][NextStar]_vars

InitHover ==
  /\ focus = "hover"
  /\ demo \in HoverDemos
  /\ phase = "mounted"
  /\ SceneInit(MockOf(demo))
  /\ PanInit /\ AppInit /\ DeckInit /\ AssetsInit /\ ThreadInit /\ RuneInit /\ EarlyInit /\ StarInit /\ HoverInit
  /\ ev = Event("mount", Null)

SpecHover == InitHover /\ [][NextHover]_vars

Init == InitScene \/ InitPan \/ InitApp \/ InitDeck \/ InitAssets \/ InitThread \/ InitRune \/ InitEarly \/ InitStar \/ InitHover

Next == NextScene \/ NextPan \/ NextApp \/ NextDeck \/ NextAssets \/ NextThread \/ NextRune \/ NextEarly \/ NextStar \/ NextHover

Spec == Init /\ [][Next]_vars

-----------------------------------------------------------------------------
(* Properties of selection and of the connecting lines.                     *)

\* Squared Euclidean distance of two points of the same dimension (2 or 3).
SqDist(p, q) ==
  IF Len(p) = 2
  THEN (p[1] - q[1]) * (p[1] - q[1]) + (p[2] - q[2]) * (p[2] - q[2])
  ELSE (p[1] - q[1]) * (p[1] - q[1]) + (p[2] - q[2]) * (p[2] - q[2])
         + (p[3] - q[3]) * (p[3] - q[3])

LineKeys == {lines[k].key : k \in 1..Len(lines)}

\* The index of the record with the given id.
IndexOf(id) == CHOOSE i \in 1..Len(records) : records[i].id = id

\* C1: the selection is null or one record id, and a click on item X turns
\* a selection of X into null and any other selection (null or another
\* item) into X; no other event changes the selection.  So at most one item
\* is selected, and it is the item clicked last unless that click hit the
\* item that was already selected.
C1_ClickTogglesSelection ==
  [][ /\ selected' \in IdsOf(records') \cup {Null}
      /\ \A x \in IdsOf(records) :
           (ev'.op = "click" /\ ev'.arg = x) =>
             selected' = (IF selected = x THEN Null ELSE x)
      /\ ev'.op # "click" => selected' = selected ]_vars

\* C1 witness: a click on the selected item has just deselected it.
C1_Witness == ev.op = "click" /\ selected = Null

\* C2: in the Pixi and Three scenes, with an active glyph A the lines drawn
\* are exactly the lines A-B for the records B other than A, of A's cluster,
\* at a distance strictly below the threshold (400 for Pixi, 12 for Three),
\* each drawn once.
C2_LinesOfActiveGlyph ==
  (demo \in {"pixi", "three"} /\ (selected # Null \/ hovered # Null)) =>
    LET a == IF selected # Null THEN selected ELSE hovered
        A == records[IndexOf(a)]
        limit == IF demo = "pixi" THEN 400 * 400 ELSE 12 * 12
        near == { i \in 1..Len(records) :
                    /\ records[i].id # a
                    /\ records[i].cluster = A.cluster
                    /\ SqDist(A.position, records[i].position) < limit }
    IN  /\ LineKeys = { <<a, records[i].id>> : i \in near }
        /\ Len(lines) = Cardinality(near)
        /\ \A k \in 1..Len(lines) :
             /\ lines[k].from = A.position
             /\ lines[k].to = records[IndexOf(lines[k].key[2])].position

\* C2 witness: an active glyph with a line drawn to one record, and another
\* record of its cluster at exactly the threshold distance with no line.
C2_Witness ==
  /\ demo \in {"pixi", "three"}
  /\ (selected # Null \/ hovered # Null)
  /\ LET a == IF selected # Null THEN selected ELSE hovered
         A == records[IndexOf(a)]
         limit == IF demo = "pixi" THEN 400 * 400 ELSE 12 * 12
     IN  /\ Len(lines) > 0
         /\ \E i \in 1..Len(records) :
              /\ records[i].id # a
              /\ records[i].cluster = A.cluster
              /\ SqDist(A.position, records[i].position) = limit
              /\ <<a, records[i].id>> \notin LineKeys

\* C3: in the Babylon and Deck scenes, the lines are those of one pass over
\* the pairs i < j of the record list: one line for each pair of equal
\* cluster at a distance strictly below the threshold (15 for Babylon, 45
\* for Deck), none for any other pair, none twice, none from a record to
\* itself, in the order of the pass.
C3_LinesOfAllPairs ==
  demo \in {"babylon", "deck"} =>
    LET limit == IF demo = "babylon" THEN 15 * 15 ELSE 45 * 45
        n == Len(records)
        near == { p \in (1..n) \X (1..n) :
                    /\ p[1] < p[2]
                    /\ records[p[1]].cluster = records[p[2]].cluster
                    /\ SqDist(records[p[1]].position, records[p[2]].position) < limit }
        pairOf(k) == <<IndexOf(lines[k].key[1]), IndexOf(lines[k].key[2])>>
    IN  /\ LineKeys = { <<records[p[1]].id, records[p[2]].id>> : p \in near }
        /\ Len(lines) = Cardinality(near)
        /\ \A k \in 1..Len(lines) :
             /\ lines[k].key[1] # lines[k].key[2]
             /\ lines[k].from = records[pairOf(k)[1]].position
             /\ lines[k].to = records[pairOf(k)[2]].position
        /\ \A k \in 1..Len(lines), l \in 1..Len(lines) :
             k < l => \/ pairOf(k)[1] < pairOf(l)[1]
                      \/ /\ pairOf(k)[1] = pairOf(l)[1]
                         /\ pairOf(k)[2] < pairOf(l)[2]

\* C3 witness: a scene rendered again after a click, with a line drawn and a
\* pair of equal cluster at exactly the threshold distance that has no line.
C3_Witness ==
  /\ demo \in {"babylon", "deck"}
  /\ ev.op = "click"
  /\ Len(lines) > 0
  /\ LET limit == IF demo = "babylon" THEN 15 * 15 ELSE 45 * 45
     IN  \E i \in 1..Len(records), j \in 1..Len(records) :
           /\ i < j
           /\ records[i].cluster = records[j].cluster
           /\ SqDist(records[i].position, records[j].position) = limit
           /\ <<records[i].id, records[j].id>> \notin LineKeys

-----------------------------------------------------------------------------
(* Properties of the record lists.                                          *)

\* C4: each demo's record list is the fixed MOCK_EMBEDDINGS_* list of the
\* demo after every sequence of operations (click, hover, drag, wheel,
\* animation frame, mount, unmount): nothing is added, removed or changed; the
\* list has at most 10 records, and their ids are pairwise distinct.
C4_RecordsFixed ==
  /\ records = MockOf(demo)
  /\ Len(records) <= 10
  /\ \A i \in 1..Len(records), j \in 1..Len(records) :
       records[i].id = records[j].id => i = j

\* C4 witness: Data Geysers after its mount, two animation frames and its
\* unmount.
C4_Witness ==
  /\ focus = "deck"
  /\ phase = "unmounted"
  /\ time >= 30
  /\ Len(records) = 6

-----------------------------------------------------------------------------
(* Properties of the renderer's initialisation.                             *)

\* C5: in BabylonApp, when initialize finishes while the component is
\* mounted: after IsSupportedAsync resolved false, or the WebGPU engine's
\* constructor or initAsync threw, a WebGL engine has been constructed and is
\* the engine state, the type is "WebGL (Fallback)" and the error is set;
\* after initAsync resolved, the engine state is the WebGPU engine, the type
\* is "WebGPU", no WebGL engine was constructed and no error is set.
C5_BabylonInitFallback ==
  [][ (demo = "babylon" /\ ev'.op = "initialized" /\ ev'.arg.mounted) =>
        IF ev'.arg.cause \in {"unsupported", "ctorThrows", "initThrows"}
        THEN /\ Len(made') = Len(made) + 1
             /\ made'[Len(made')].kind = "WebGL"
             /\ engine' = Len(made')
             /\ engineType' = "WebGL (Fallback)"
             /\ error' # Null
        ELSE /\ ev'.arg.cause = "ok"
             /\ engine' = runs[ev'.arg.run].currentEngine
             /\ engine' # NoEngine
             /\ made'[engine'].kind = "WebGPU"
             /\ engineType' = "WebGPU"
             /\ made' = made
             /\ \A i \in 1..Len(made') : made'[i].kind # "WebGL"
             /\ error' = Null
    ]_vars

\* C5 witness: BabylonApp, mounted, just after initAsync threw and the
\* fallback stored a WebGL engine.
C5_Witness ==
  /\ demo = "babylon"
  /\ ev.op = "initialized"
  /\ ev.arg.cause = "initThrows"
  /\ ev.arg.mounted
  /\ engine # NoEngine
  /\ made[engine].kind = "WebGL"
  /\ engineType = "WebGL (Fallback)"

\* C6: in ThreeJSApp, when a run of initRenderer finishes while the component
\* is mounted: after WebGPU was unavailable, no adapter was returned, or the
\* WebGPU renderer's constructor or init threw, a WebGLRenderer has been
\* constructed and is the renderer state, the type is "WebGL (Fallback)" and
\* the error is set; after init resolved, the renderer state is the WebGPU
\* renderer, the type is "WebGPU" and the run set no error.  A run stores
\* exactly one renderer: it stores none before it finishes, it stores its own
\* renderer when it finishes, and it finishes once.
C6_ThreeInitFallback ==
  [][ demo = "three" =>
        /\ (ev'.op = "initialized" /\ ev'.arg.mounted) =>
             /\ runs'[ev'.arg.run].pc = "done"
             /\ engine' = runs'[ev'.arg.run].currentEngine
             /\ engine' # NoEngine
             /\ IF ev'.arg.cause \in {"unavailable", "noAdapter", "ctorThrows", "initThrows"}
                THEN /\ Len(made') = Len(made) + 1
                     /\ engine' = Len(made')
                     /\ made'[engine'].kind = "WebGL"
                     /\ engineType' = "WebGL (Fallback)"
                     /\ error' # Null
                ELSE /\ ev'.arg.cause = "ok"
                     /\ made'[engine'].kind = "WebGPU"
                     /\ engineType' = "WebGPU"
                     /\ made' = made
                     /\ error' = error
        /\ ev'.op = "await" => engine' = engine
        /\ \A k \in 1..Len(runs) : runs[k].pc = "done" => runs'[k] = runs[k]
    ]_vars

\* C6 witness: ThreeJSApp, mounted, just after the init of a WebGPU renderer
\* resolved in a run of the effect later than the first, with no error ever
\* set.
C6_Witness ==
  /\ demo = "three"
  /\ ev.op = "initialized"
  /\ ev.arg.cause = "ok"
  /\ ev.arg.mounted
  /\ ev.arg.run > 1
  /\ engine = runs[ev.arg.run].currentEngine
  /\ engineType = "WebGPU"
  /\ error = Null

-----------------------------------------------------------------------------
(* Properties of pan and zoom.                                              *)

\* C7: while a drag is in progress (the pointer is down on the stage), every
\* pointermove translates the viewport position by (-dx / zoom, -dy / zoom),
\* (dx, dy) being the pointer's displacement since the previous pointer event.
C7_DragMoveTranslates ==
  [][ (ptr.down /\ ev'.op = "pointermove") =>
        LET dx == ev'.arg[1] - ptr.x
            dy == ev'.arg[2] - ptr.y
        IN  /\ viewport'.x = RSub(viewport.x, RDiv(Rat(dx, 1), zoom))
            /\ viewport'.y = RSub(viewport.y, RDiv(Rat(dy, 1), zoom))
    ]_vars

\* C8: the zoom always lies in [0.15, 3.5]; a wheel event sets it to
\* zoom * (1 - 0.001 * deltaY) clamped to that interval, and no other event
\* changes it.
C8_WheelSetsZoom ==
  [][ /\ ~RLess(zoom', Rat(15, 100))
      /\ ~RLess(Rat(35, 10), zoom')
      /\ ev'.op = "wheel" =>
           zoom' = RMax(Rat(15, 100), RMin(Rat(35, 10),
                     RMul(zoom, RSub(Rat(1, 1), Rat(ev'.arg[1], 1000)))))
      /\ ev'.op # "wheel" => zoom' = zoom
    ]_vars

\* C9: a wheel event keeps the world point under the cursor (mx, my) fixed:
\* viewX' + (mx - W / 2) / zoom' = viewX + (mx - W / 2) / zoom, and likewise
\* for y with H.
C9_WheelKeepsCursorPoint ==
  [][ ev'.op = "wheel" =>
        LET offX == RSub(Rat(ev'.arg[2][1], 1), Rat(ScreenWidth, 2))
            offY == RSub(Rat(ev'.arg[2][2], 1), Rat(ScreenHeight, 2))
        IN  /\ RAdd(viewport'.x, RDiv(offX, zoom')) = RAdd(viewport.x, RDiv(offX, zoom))
            /\ RAdd(viewport'.y, RDiv(offY, zoom')) = RAdd(viewport.y, RDiv(offY, zoom))
    ]_vars

-----------------------------------------------------------------------------
(* Properties of the animation of DeckGLApp.                                *)

\* C10: the animation is a single chain of animation-frame callbacks: at most
\* one request is outstanding at any time; each callback adds exactly 0.015
\* (15 thousandths) to time and schedules exactly one successor; after the
\* unmount no request is outstanding and time never changes again.
C10_SingleFrameChain ==
  [][ /\ Cardinality(rafPending') <= 1
      /\ ev'.op = "frame" =>
           /\ time' = time + 15
           /\ ev'.arg \notin rafPending'
           /\ Cardinality(rafPending' \ rafPending) = 1
      /\ phase' = "unmounted" => rafPending' = {}
      /\ phase = "unmounted" => time' = time
    ]_vars

\* C10 witness: after three callbacks and the unmount, with nothing
\* outstanding.
C10_Witness ==
  /\ focus = "deck"
  /\ ev.op = "unmount"
  /\ time = 45
  /\ rafPending = {}

-----------------------------------------------------------------------------
(* Properties of the effect's cleanup.                                      *)

\* C11: while BabylonApp / ThreeJSApp stays mounted, no engine or renderer
\* that initialisation constructed is disposed, the engine / renderer state
\* is never reset to null, and the type label is never "Disposed".
C11_CleanupOnlyAtUnmount ==
  [][ phase' # "unmounted" =>
        /\ engineType' # "Disposed"
        /\ \A i \in 1..Len(made') : ~made'[i].disposed
        /\ engine # NoEngine => engine' # NoEngine
    ]_vars

-----------------------------------------------------------------------------
(* Properties of the asset initialisation of PixiApp.                       *)

\* The promises that calls of initializePixiAssets returned.
Returned == { p \in 1..Len(promises) : promises[p].of # NoPromise }

\* C12 (as stated): PIXI.Assets.init is called at most once, and every caller
\* of initializePixiAssets receives the same promise.
C12_SamePromise ==
  /\ initCalls <= 1
  /\ \A p \in Returned, q \in Returned : p = q

\* C12 (amended): PIXI.Assets.init is called at most once however often
\* initializePixiAssets is called, over every mount; the module keeps one
\* promise, and every caller receives a promise that adopts it, so all of
\* them settle as it settles.
C12_AssetsInitOnce ==
  /\ initCalls <= 1
  /\ Cardinality({ p \in 1..Len(promises) : promises[p].of = NoPromise }) <= 1
  /\ \A p \in Returned :
       /\ promises[p].of = assetsPromise
       /\ Settled(promises, p) = promises[assetsPromise].state

\* C12 witness: a later mount has called initializePixiAssets again, after
\* the first PIXI.Assets.init was rejected.
C12_Witness ==
  /\ focus = "assets"
  /\ pixi.inst >= 2
  /\ phase = "mounted"
  /\ Cardinality(Returned) >= 4
  /\ initCalls = 1
  /\ promises[assetsPromise].state = "rejected"

-----------------------------------------------------------------------------
(* Properties of the active glyph.                                          *)

\* C13: in Chrono-Scrolls and Ephemeral Echoes the lines drawn are those of
\* the selected glyph if one is selected, and otherwise those of the hovered
\* glyph; with nothing selected and nothing hovered no line is drawn; and
\* while a glyph is selected, pointerover and pointerout events leave the
\* lines unchanged.
C13_SelectedBeforeHovered ==
  [][ (demo = "pixi" \/ demo = "three") =>
        /\ \A k \in 1..Len(lines') :
             lines'[k].key[1] = (IF selected' # Null THEN selected' ELSE hovered')
        /\ selected' # Null =>
             lines' = RenderLines(demo, records, selected', Null, lines)
        /\ (selected' = Null /\ hovered' # Null) =>
             lines' = RenderLines(demo, records, hovered', Null, lines)
        /\ (selected' = Null /\ hovered' = Null) => lines' = <<>>
        /\ (selected # Null /\ ev'.op \in {"pointerover", "pointerout"}) =>
             lines' = lines
    ]_vars

\* C13 witness: a glyph with lines is selected, and the pointer has just come
\* over another glyph, of another cluster, that has neighbours of its own.
C13_Witness ==
  /\ demo \in {"pixi", "three"}
  /\ ev.op = "pointerover"
  /\ selected # Null
  /\ hovered # Null
  /\ hovered # selected
  /\ Len(lines) > 0
  /\ records[IndexOf(hovered)].cluster # records[IndexOf(selected)].cluster
  /\ Len(RenderLines(demo, records, hovered, Null, lines)) > 0

-----------------------------------------------------------------------------
(* Properties of WeavingThread.                                             *)

\* C14: a WeavingThread's progress always lies in [0, 1] and never
\* decreases; a tick while it is below 1 adds min(1 - progress, 0.025 *
\* delta); once it is 1 no tick changes it; and with ticks of positive delta
\* it eventually is 1.  (It starts at 0: ThreadInit.)
C14_ProgressReachesOne ==
  /\ [][ /\ 0 <= progress' /\ progress' <= 10000
         /\ progress <= progress'
         /\ (ev'.op = "tick" /\ progress < 10000) =>
              progress' - progress = Min(10000 - progress, 25 * ev'.arg)
         /\ progress = 10000 => progress' = 10000
       ]_vars
  /\ <>(progress = 10000)

\* C14 witness: a tick has just clamped the progress at 1, from less than one
\* step below it, before the component rendered again.
C14_Witness ==
  /\ focus = "thread"
  /\ ev.op = "tick"
  /\ progress = 10000
  /\ progressSeen < 10000
  /\ progressSeen + 25 * ev.arg > 10000

-----------------------------------------------------------------------------
(* Properties of RuneGlyph.                                                 *)

\* C15: on every tick the new scale of a rune lies between the previous scale
\* and the target (1.28 selected, 1.18 hovered, 1 otherwise): it does not
\* overshoot the target.
C15_ScaleNeverOvershoots ==
  [][ ev'.op = "tick" =>
        LET target == IF runeProps.isSelected THEN Rat(128, 100)
                      ELSE IF runeProps.isHovered THEN Rat(118, 100) ELSE Rat(1, 1)
        IN  \/ ~RLess(currentScale', currentScale) /\ ~RLess(target, currentScale')
            \/ ~RLess(currentScale, currentScale') /\ ~RLess(currentScale', target)
    ]_vars

-----------------------------------------------------------------------------
(* Properties of the placeholder of PixiApp.                                *)

\* C16: PixiApp shows the Application only once the asset-initialisation
\* promise is resolved, and the switch from the placeholder is made by a
\* then-callback of the mounted instance; a rejected promise stays the cached
\* one, PIXI.Assets.init is not called again, and the placeholder stays.
C16_PlaceholderUntilResolved ==
  /\ [](PixiShown = "Application" =>
          assetsPromise # NoPromise /\ promises[assetsPromise].state = "resolved")
  /\ [][ /\ (PixiShown = "Initializing PixiJS Assets..." /\ PixiShown' = "Application") =>
              /\ ev'.op = "then"
              /\ phase = "mounted"
              /\ ev'.arg.inst = pixi.inst
         /\ (assetsPromise # NoPromise /\ promises[assetsPromise].state = "rejected") =>
              /\ assetsPromise' = assetsPromise
              /\ promises'[assetsPromise].state = "rejected"
              /\ initCalls' = initCalls
              /\ PixiShown' = "Initializing PixiJS Assets..."
       ]_vars

\* PIXI.Assets.init was rejected, and an instance mounted after that shows
\* the placeholder with nothing left to run.
C16_Witness ==
  /\ focus = "assets"
  /\ assetsPromise # NoPromise
  /\ promises[assetsPromise].state = "rejected"
  /\ pixi.inst > 1
  /\ phase = "mounted"
  /\ initCalls = 1
  /\ PixiShown = "Initializing PixiJS Assets..."

-----------------------------------------------------------------------------
(* Properties of the asset initialisation of the earlier PixiApp variant.   *)

\* C17: the first PIXI.Assets.init is made with the WebGPU preference; the
\* default init is attempted once, exactly when the first was rejected; the
\* shared promise is resolved exactly when an attempt succeeded and rejected
\* exactly when both failed.
C17_FallbackOnce ==
  /\ Len(earlyAttempts) <= 2
  /\ (earlyPromise = "null") = (earlyAttempts = <<>>)
  /\ Len(earlyAttempts) >= 1 => earlyAttempts[1].prefs = "preferWebGPU"
  /\ Len(earlyAttempts) >= 1 =>
       ((Len(earlyAttempts) = 2) = (earlyAttempts[1].state = "rejected"))
  /\ Len(earlyAttempts) = 2 => earlyAttempts[2].prefs = "default"
  /\ (earlyPromise = "resolved") =
       (\E i \in 1..Len(earlyAttempts) : earlyAttempts[i].state = "resolved")
  /\ (earlyPromise = "rejected") =
       (/\ Len(earlyAttempts) = 2
        /\ \A i \in 1..2 : earlyAttempts[i].state = "rejected")

\* The first attempt was rejected, the fallback succeeded, and a later
\* instance of the component was made ready by the shared promise.
C17_Witness ==
  /\ focus = "early"
  /\ Len(earlyAttempts) = 2
  /\ earlyAttempts[1].state = "rejected"
  /\ earlyAttempts[2].state = "resolved"
  /\ earlyPromise = "resolved"
  /\ earlyApp.inst > 1
  /\ earlyApp.isPixiAssetsReady

-----------------------------------------------------------------------------
(* Properties of the StarCore pointer observers of part_003.                *)

\* The number of observers a star has on the scene.
ObserversOf(star) == Len(SelectSeq(observers, LAMBDA o : o.star = star))

\* C18: while the scene is mounted every StarCore has exactly one pointer
\* observer, after the unmount none; a pick on a star's sphere calls that
\* star's onClick once and no other onClick, a pick on nothing calls none.
C18_OneObserverPerStar ==
  /\ [](focus = "star" =>
          /\ phase = "mounted" => \A star \in Stars : ObserversOf(star) = 1
          /\ phase = "unmounted" => observers = <<>>)
  /\ [][ ev'.op = "pick" =>
           /\ ev'.arg.calls = IF ev'.arg.mesh \in Stars THEN <<ev'.arg.mesh>> ELSE <<>>
           /\ selectedStarId' = IF ev'.arg.mesh \in Stars
                                THEN handleStarClick(selectedStarId, ev'.arg.mesh)
                                ELSE selectedStarId
       ]_vars

\* After several renders, a pick on a star's sphere has called its onClick
\* through the observer of the latest effect.
C18_Witness ==
  /\ focus = "star"
  /\ phase = "mounted"
  /\ starRenders >= 4
  /\ ev.op = "pick"
  /\ ev.arg.mesh \in Stars
  /\ ev.arg.calls = <<ev.arg.mesh>>
  /\ selectedStarId = Null

-----------------------------------------------------------------------------
(* Properties of the renderer of ThreeJSApp.                                *)

\* C19: in ThreeJSApp initRenderer runs once per mount, and a renderer that
\* is stored in the state stays there, not disposed, until the component
\* unmounts.
C19_RendererSettles ==
  [][ (focus = "app" /\ demo = "three") =>
        /\ Len(runs') <= 1
        /\ (engine # NoEngine /\ phase' # "unmounted") =>
              /\ engine' = engine
              /\ ~made'[engine].disposed
    ]_vars

-----------------------------------------------------------------------------
(* Properties of the asynchronous initialisations after the unmount.        *)

\* C20: when an initialize / initRenderer of BabylonApp or ThreeJSApp
\* completes after the component has unmounted, it calls no state setter and
\* the state stays as the unmount left it; a then-callback of PixiApp that
\* runs after its instance has unmounted calls no setter either.
C20_NoSetterAfterUnmount ==
  [][ /\ (ev'.op = "initialized" /\ phase = "unmounted") =>
           /\ ev'.arg.calls = {}
           /\ <<engine', engineType', error'>> = <<engine, engineType, error>>
      /\ (focus = "assets" /\ ev'.op = "then"
            /\ (ev'.arg.inst < pixi.inst \/ phase = "unmounted")) =>
           /\ ev'.arg.calls = {}
           /\ pixi' = pixi
    ]_vars

\* An initialisation of BabylonApp that was pending at the unmount has
\* completed after it, with the WebGPU engine initialised.
C20_Witness ==
  /\ focus = "app"
  /\ demo = "babylon"
  /\ phase = "unmounted"
  /\ ev.op = "initialized"
  /\ ev.arg.cause = "ok"
  /\ ~ev.arg.mounted
  /\ ev.arg.calls = {}
  /\ engine = NoEngine

-----------------------------------------------------------------------------
(* Properties of the disposal of engines and renderers.                     *)

\* C21: once BabylonApp or ThreeJSApp has unmounted and no initialisation is
\* pending any more, every engine / renderer that was constructed has been
\* disposed.
C21_NoEngineLeaked ==
  (/\ focus = "app"
   /\ phase = "unmounted"
   /\ \A k \in 1..Len(runs) : runs[k].pc \in {"idle", "done"})
    => \A i \in 1..Len(made) : made[i].disposed

-----------------------------------------------------------------------------
(* Properties of the glyphs' props.                                         *)

\* C22: in the Pixi, Three.js and Babylon scenes every glyph reads a valid
\* entry of the cluster colour table, the one of its record's cluster, which
\* is the entry the lines of that record use.
C22_GlyphClusterColours ==
  (focus = "scene" /\ demo \in {"pixi", "three", "babylon"}) =>
    \A k \in 1..Len(records) :
      LET props == glyphProps(demo, records[k], selected, hovered)
      IN  /\ "clusterId" \in DOMAIN props
          /\ props.clusterId = records[k].cluster
          /\ paletteIndex(props, PaletteLength(demo))
               = {lineColorIndex(records[k], PaletteLength(demo))}

-----------------------------------------------------------------------------
(* Properties of the isSelected and isHovered props.                        *)

\* The props of the glyph of the k-th record in the current state.
PropsOf(k) == glyphProps(demo, records[k], selected, hovered)

\* C23: in the Pixi and Three.js scenes no glyph is both hovered and
\* selected, at most one glyph is selected and at most one hovered, and the
\* name label is shown exactly for the glyphs named by the selected and the
\* hovered id.
C23_HoveredSelectedExclusive ==
  (focus = "scene" /\ demo \in {"pixi", "three"}) =>
    /\ \A k \in 1..Len(records) :
         /\ ~(PropsOf(k).isHovered /\ PropsOf(k).isSelected)
         /\ labelShown(PropsOf(k)) = (records[k].id \in {selected, hovered})
    /\ Cardinality({k \in 1..Len(records) : PropsOf(k).isSelected}) <= 1
    /\ Cardinality({k \in 1..Len(records) : PropsOf(k).isHovered}) <= 1

\* The pointer is over the selected glyph of the Three.js scene: the glyph
\* is selected and not hovered, and its label is shown.
C23_Witness ==
  /\ focus = "scene"
  /\ demo = "three"
  /\ selected # Null
  /\ hovered = selected
  /\ \E k \in 1..Len(records) :
       /\ records[k].id = selected
       /\ PropsOf(k).isSelected
       /\ ~PropsOf(k).isHovered
       /\ labelShown(PropsOf(k))

-----------------------------------------------------------------------------
(* Properties of the hovered id.                                            *)

\* C24: the hovered id names a glyph that has received a pointerover and no
\* later pointerout; it is that glyph when there is exactly one, and it is
\* null only when there is none.
C24_HoveredIsPointerTarget ==
  focus = "hover" =>
    /\ hovered # Null => hovered \in over
    /\ hovered = Null => over = {}
    /\ \A id \in over : over = {id} => hovered = id

=============================================================================
